---- MODULE Spec2Model ----
(***************************************************************************)
(* Model of the expectation-propagation outer loop (EPOptimiser) and of    *)
(* the message algebra (AbstractMessage) of PyAutoFit.                     *)
(***************************************************************************)
EXTENDS Integers, Sequences, FiniteSets, TLC

VARIABLES
    \* ---- EPOptimiser ----
    pc,                \* "new", "constructed", "construct_failed", "running", "returned", "raised"
    init_args,         \* arguments of the running/last __init__ call (its frame), NoArgs otherwise
    kind,              \* what each factor of the graph is (its exact methods, its fault)
    factors,           \* self.factors
    factor_optimisers, \* self.factor_optimisers, an insertion-ordered dict: <<factor, optimiser>> pairs
    callback,          \* the policy of self.ep_history's callback
    max_steps,         \* argument of run
    step,              \* index of the outer loop of run
    idx,               \* position of the inner loop of run in factor_optimisers.items()
    model_approx,      \* the mean field run holds
    ep_history,        \* what self.ep_history was called with, per factor
    snapshots,         \* the approximations self.ep_history keeps, per factor
    attempts,          \* the factors optimise was called for, in call order
    reads,             \* per attempt: the mean field optimise was given and the one it returned
    terminated_at,     \* number of optimise calls made when the callback returned True, 0 before
    error,             \* the exception that left __init__ or run
    returned,          \* what run returned
    \* ---- AbstractMessage ----
    enforce_id_match,  \* the module's global flag
    msg_a,             \* receiver of the last operation
    msg_b,             \* its other operand
    msg_op,            \* the last operation
    msg_result,        \* its result: a Message, or an error
    \* ---- Message objects ----
    heap,              \* the Message objects alive, by address
    last,              \* the last operator applied to them: operands and outcome
    \* ---- EPMeanField and a factor optimiser ----
    graph,             \* the variables of each factor of the graph
    exact,             \* the exact method each factor provides
    opt,               \* the optimiser: delta, deltas, dynamic_delta
    mf0,               \* the mean field the calls started from
    mf,                \* model_approx: mean_field and the factors' own distributions
    trail,             \* the calls made on model_approx, in order
    \* ---- AbstractMessage.project ----
    samples,           \* argument of project: the samples
    log_weight_list,   \* argument of project: None, or one log weight per sample
    projected,         \* what the call of project gave: a Message, or an error
    \* ---- LaplaceOptimiser.optimise ----
    lap_pc,            \* position of optimise: initialized, iterating, refining, refined, returned, done
    lap_self,          \* the optimiser: max_iter, n_refine
    lap_kwargs,        \* keyword arguments of the call: max_iter, n_refine, each None when not given
    objective,         \* how the quasi-Newton iteration behaves on the factor
    lap_iter,          \* iterations the quasi-Newton phase made
    lap_passes,        \* passes refine made
    lap_status,        \* the Status the quasi-Newton phase produced
    lap_returned,      \* the Status optimise_approx returned
    lap_merged,        \* the Status optimise gave to update_model_approx
    next_state,        \* the OptimisationState optimise_approx holds as next_state
    \* ---- Process (non_linear/parallel) ----
    proc_self,         \* what every Process was constructed with: initializer, initargs, job_args
    has_iterable,      \* whether the interpreter's collections module still has Iterable
    job_queue,         \* the shared job queue
    proc,              \* each Process: its position in run and the job it holds
    initialized,       \* the arguments each Process called the initializer with, None before
    queue,             \* each Process's own result queue
    total,             \* run_jobs: the number of jobs put on the job queue
    rj,                \* run_jobs: its position, and the process its for loop is at
    yielded,           \* run_jobs: the results yielded, in order
    \* ---- Analysis.should_visualize ----
    vis_args,          \* the call's inputs: environment, paths, config, during_analysis, paths.is_complete
    vis_result,        \* what should_visualize returned, None before the call
    \* ---- GridSearchResult ----
    grid_result,       \* the GridSearchResult as __init__ left it
    grid_read,         \* the property read last, and its value
    \* ---- exact_fit on EPMeanField objects ----
    fit_self,          \* the optimiser exact_fit is called on: inplace, delta, deltas, dynamic_delta
    fit_exact,         \* the exact method each factor provides
    objects,           \* the EPMeanField objects alive, by address
    held,              \* the address of the caller's model_approx
    fit_calls,         \* the calls of exact_fit made: what was given, what came back
    \* ---- Migrator.migrate on a session ----
    mig_steps,         \* self._steps of the Migrator
    session,           \* the database: whether the revision table exists, its row, the statements that fail
    mig_pc,            \* position of migrate: idle, executing
    pending,           \* the statements migrate has still to execute, each with its step
    executed,          \* the step statements executed, per call of migrate, with their outcome
    mig_reads,         \* the revision id each call of migrate read
    \* ---- query_model conditions ----
    operands,          \* the conditions a, b and c the conjunctions are made of
    conjunctions       \* the conjunctions made of them so far, by expression

ep_vars == <<pc, init_args, kind, factors, factor_optimisers, callback, max_steps,
             step, idx, model_approx, ep_history, snapshots, attempts, reads, terminated_at,
             error, returned>>
msg_vars == <<enforce_id_match, msg_a, msg_b, msg_op, msg_result>>
heap_vars == <<heap, last>>
mf_vars == <<graph, exact, opt, mf0, mf, trail>>
proj_vars == <<samples, log_weight_list, projected>>
lap_vars == <<lap_pc, lap_self, lap_kwargs, objective, lap_iter, lap_passes, lap_status, lap_returned, lap_merged, next_state>>
proc_vars == <<proc_self, has_iterable, job_queue, proc, initialized, queue, total, rj, yielded>>
vis_vars == <<vis_args, vis_result>>
grid_vars == <<grid_result, grid_read>>
fit_vars == <<fit_self, fit_exact, objects, held, fit_calls>>
mig_vars == <<mig_steps, session, mig_pc, pending, executed, mig_reads>>
cond_vars == <<operands, conjunctions>>
not_ep_vars == <<msg_vars, heap_vars, mf_vars, proj_vars, lap_vars, proc_vars, vis_vars, grid_vars, fit_vars, mig_vars, cond_vars>>
not_msg_vars == <<ep_vars, heap_vars, mf_vars, proj_vars, lap_vars, proc_vars, vis_vars, grid_vars, fit_vars, mig_vars, cond_vars>>
not_heap_vars == <<ep_vars, msg_vars, mf_vars, proj_vars, lap_vars, proc_vars, vis_vars, grid_vars, fit_vars, mig_vars, cond_vars>>
not_mf_vars == <<ep_vars, msg_vars, heap_vars, proj_vars, lap_vars, proc_vars, vis_vars, grid_vars, fit_vars, mig_vars, cond_vars>>
not_proj_vars == <<ep_vars, msg_vars, heap_vars, mf_vars, lap_vars, proc_vars, vis_vars, grid_vars, fit_vars, mig_vars, cond_vars>>
not_lap_vars == <<ep_vars, msg_vars, heap_vars, mf_vars, proj_vars, proc_vars, vis_vars, grid_vars, fit_vars, mig_vars, cond_vars>>
not_proc_vars == <<ep_vars, msg_vars, heap_vars, mf_vars, proj_vars, lap_vars, vis_vars, grid_vars, fit_vars, mig_vars, cond_vars>>
not_vis_vars == <<ep_vars, msg_vars, heap_vars, mf_vars, proj_vars, lap_vars, proc_vars, grid_vars, fit_vars, mig_vars, cond_vars>>
not_grid_vars == <<ep_vars, msg_vars, heap_vars, mf_vars, proj_vars, lap_vars, proc_vars, vis_vars, fit_vars, mig_vars, cond_vars>>
not_fit_vars == <<ep_vars, msg_vars, heap_vars, mf_vars, proj_vars, lap_vars, proc_vars, vis_vars, grid_vars, mig_vars, cond_vars>>
not_mig_vars == <<ep_vars, msg_vars, heap_vars, mf_vars, proj_vars, lap_vars, proc_vars, vis_vars, grid_vars, fit_vars, cond_vars>>
not_cond_vars == <<ep_vars, msg_vars, heap_vars, mf_vars, proj_vars, lap_vars, proc_vars, vis_vars, grid_vars, fit_vars, mig_vars>>
vars == <<ep_vars, msg_vars, heap_vars, mf_vars, proj_vars, lap_vars, proc_vars, vis_vars, grid_vars, fit_vars, mig_vars, cond_vars>>

\* -------------------------------------------------------------------------
\* Bounds
MaxSteps == 5
MaxMean == 2
MaxPrecision == 2
MaxLogNorm == 1
MaxObjects == 4
MaxCalls == 2
MaxSamples == 2
MaxIter == 2
MaxRefine == 2
MaxProcesses == 2
MaxJobs == 2
MaxDimensions == 2
MaxSide == 3
MaxMigratorSteps == 2

\* -------------------------------------------------------------------------
\* Python values
\* an optional value: None, or Some(v)
None == <<>>
Some(v) == <<v>>
ValueOf(o) == o[1]
NoException == "None"
NoArgs == [factor_order |-> None, default_optimiser |-> None,
           factor_optimisers |-> None, ep_history |-> None]

RECURSIVE SeqsUpTo(_, _)
SeqsUpTo(S, n) ==
    IF n = 0 THEN {<<>>}
    ELSE LET shorter == SeqsUpTo(S, n - 1)
         IN shorter \cup {Append(s, x) : s \in {t \in shorter : Len(t) = n - 1}, x \in S}

Range(s) == {s[i] : i \in DOMAIN s}

\* -------------------------------------------------------------------------
\* The factor graph and what its factors are
GraphFactors == <<"f1", "f2">>
FactorSet == Range(GraphFactors)

ExactMethods == {"update", "projection", "none"}
Faults == {"none", "failed_status", "ValueError", "ZeroDivisionError", "RuntimeError",
           "id_mismatch", "non_finite"}
FactorKinds ==
    {[exact |-> e, fault |-> "none"] : e \in ExactMethods}
        \cup {[exact |-> "projection", fault |-> x] : x \in Faults \ {"none"}}

\* -------------------------------------------------------------------------
\* Optimisers
ExactFactorFit == "ExactFactorFit"
LaplaceOptimiser == "LaplaceOptimiser"
OptimiserClasses == {ExactFactorFit, LaplaceOptimiser}
Optimiser(cls, name) == [cls |-> cls, name |-> name]

\* -------------------------------------------------------------------------
\* Insertion-ordered dicts as sequences of <<key, value>> pairs
DictKeys(d) == {d[i][1] : i \in DOMAIN d}
DictKeySeq(d) == [i \in DOMAIN d |-> d[i][1]]
DictGet(d, k, default) ==
    IF k \in DictKeys(d)
    THEN d[CHOOSE i \in DOMAIN d : d[i][1] = k][2]
    ELSE default

RECURSIVE DictComprehension(_, _, _)
\* {f: value(f) for f in keys}: a repeated key keeps its first position
DictComprehension(keys, given, default) ==
    IF keys = <<>> THEN <<>>
    ELSE LET front == DictComprehension(SubSeq(keys, 1, Len(keys) - 1), given, default)
             k == keys[Len(keys)]
         IN IF k \in DictKeys(front) THEN front
            ELSE Append(front, <<k, DictGet(given, k, default)>>)

\* -------------------------------------------------------------------------
\* Exceptions: the classes an exception is an instance of
ExceptionBases(e) ==
    CASE e = "ValueError" -> {"ValueError", "Exception"}
      [] e = "ArithmeticError" -> {"ArithmeticError", "Exception"}
      [] e = "ZeroDivisionError" -> {"ZeroDivisionError", "ArithmeticError", "Exception"}
      [] e = "RuntimeError" -> {"RuntimeError", "Exception"}
      [] e = "NotImplementedError" -> {"NotImplementedError", "RuntimeError", "Exception"}
      [] e = "AssertionError" -> {"AssertionError", "Exception"}
      [] OTHER -> {"Exception"}

\* except (ValueError, ArithmeticError, RuntimeError) as e
CaughtClasses == {"ValueError", "ArithmeticError", "RuntimeError"}
CaughtWithoutRuntimeError(e) == ExceptionBases(e) \cap {"ValueError", "ArithmeticError"} # {}
CaughtAnyException(e) == "Exception" \in ExceptionBases(e)
Caught(e) == ExceptionBases(e) \cap CaughtClasses # {}

\* -------------------------------------------------------------------------
\* Status
Status(success, messages) == [success |-> success, messages |-> messages]
DefaultStatus == Status(TRUE, <<>>)
\* the error reported in a successful Status
ErrorStatusSuccess(factor, e) == Status(TRUE, <<[factor |-> factor, error |-> e]>>)
\* Status(False, (f"Factor: {factor} experienced error {e}",))
ErrorStatus(factor, e) == Status(FALSE, <<[factor |-> factor, error |-> e]>>)

\* -------------------------------------------------------------------------
\* One call of optimiser.optimise(factor, model_approx): what it raises, or the
\* mean field and Status it returns
Raises(e) == [raises |-> e, status |-> DefaultStatus, merged |-> FALSE]
Returns(status) == [raises |-> NoException, status |-> status, merged |-> TRUE]

\* what the projection of a factor's update into the mean field does
FaultOutcome(fault) ==
    CASE fault = "none" -> Returns(DefaultStatus)
      [] fault = "failed_status" -> Returns(Status(FALSE, <<"optimisation failed">>))
      [] fault = "id_mismatch" -> Raises("AssertionError")
      [] fault = "non_finite" -> Raises("AssertionError")
      [] OTHER -> Raises(fault)

exact_fit(k) ==
    IF k.exact = "update" THEN Returns(DefaultStatus)
    ELSE IF k.exact = "projection" THEN FaultOutcome(k.fault)
    ELSE Raises("NotImplementedError")

laplace_optimise(k) == FaultOutcome(k.fault)

Optimise(optimiser, k) ==
    IF optimiser.cls = ExactFactorFit THEN exact_fit(k) ELSE laplace_optimise(k)

\* the mean field after an optimise call for factor f that returned
Merged(approx, f) == [approx EXCEPT ![f] = @ + 1]

\* -------------------------------------------------------------------------
\* EPHistory
HistoryCall(history, factor, status) == [history EXCEPT ![factor] = Append(@, status)]
\* add: a successful status appends the approximation, a failed one does not
HistorySnapshots(snaps, factor, approx, status) ==
    IF status.success THEN [snaps EXCEPT ![factor] = Append(@, approx)] ELSE snaps
latest_successful(snaps, factor) ==
    IF snaps[factor] = <<>> THEN None ELSE Some(snaps[factor][Len(snaps[factor])])
\* what the callback may answer: the default policy never terminates
CallbackAnswers(policy) == IF policy = "never" THEN {FALSE} ELSE BOOLEAN

\* -------------------------------------------------------------------------
\* EPOptimiser.__init__
OrEmpty(d) == IF d = None THEN <<>> ELSE ValueOf(d)
InitFactors(factor_order) ==
    IF factor_order = None \/ ValueOf(factor_order) = <<>> THEN GraphFactors
    ELSE ValueOf(factor_order)
MissingNeverChecked(fs, given) == {}
MissingOptimisers(fs, given) == Range(fs) \ DictKeys(given)
InitFactorOptimisers(fs, default_optimiser, given) ==
    IF default_optimiser = None THEN given
    ELSE DictComprehension(fs, given, ValueOf(default_optimiser))
InitHistory(ep_history_arg) ==
    IF ep_history_arg = None THEN "never" ELSE ValueOf(ep_history_arg)

FactorOrders == {None} \cup {Some(s) : s \in SeqsUpTo(FactorSet, Len(GraphFactors))}
DefaultOptimisers == {None} \cup {Some(Optimiser(c, "default")) : c \in OptimiserClasses}
GivenOptimisers ==
    {None} \cup
    {Some([i \in DOMAIN ks |-> <<ks[i], Optimiser(c, "own")>>]) :
        ks \in {s \in SeqsUpTo(FactorSet, Len(GraphFactors)) :
                    \A i, j \in DOMAIN s : s[i] = s[j] => i = j},
        c \in OptimiserClasses}
HistoryArgs == {None, Some("custom")}

Construct(factor_order, default_optimiser, given, ep_history_arg) ==
    /\ pc = "new"
    /\ LET fo == OrEmpty(given)
           fs == InitFactors(factor_order)
       IN /\ init_args' = [factor_order |-> factor_order,
                           default_optimiser |-> default_optimiser,
                           factor_optimisers |-> given,
                           ep_history |-> ep_history_arg]
          /\ factors' = fs
          /\ factor_optimisers' = InitFactorOptimisers(fs, default_optimiser, fo)
          /\ IF default_optimiser = None /\ MissingOptimisers(fs, fo) # {}
             THEN /\ pc' = "construct_failed"
                  /\ error' = "ValueError"
                  /\ callback' = callback
             ELSE /\ pc' = "constructed"
                  /\ error' = error
                  /\ callback' = InitHistory(ep_history_arg)
    /\ UNCHANGED <<kind, max_steps, step, idx, model_approx, ep_history, snapshots, attempts, reads,
                   terminated_at, returned>>
    /\ UNCHANGED not_ep_vars

\* -------------------------------------------------------------------------
\* EPOptimiser.run
RunItems == factor_optimisers

Run(n) ==
    /\ pc = "constructed"
    /\ pc' = "running"
    /\ init_args' = NoArgs
    /\ max_steps' = n
    /\ step' = 0
    /\ idx' = 1
    /\ UNCHANGED <<kind, factors, factor_optimisers, callback, model_approx, ep_history, snapshots,
                   attempts, reads, terminated_at, error, returned>>
    /\ UNCHANGED not_ep_vars

\* what one attempt was given and what it returned (None when it raised)
Attempt(given, result) == [read |-> given, returned |-> result]
\* the name model_approx never assigned
WriteBackNever(approx, result) == approx
\* model_approx, status = optimiser.optimise(...): assigned unless optimise raised
WriteBack(approx, result) == IF result = None THEN approx ELSE result[1]
LoopDoneOneLate(s, n) == s > n
LoopDone(s, n) == s >= n
NextStep(s) == s + 1
\* a break of the inner loop also leaves the outer loop
BreaksInnerOnly == FALSE
BreaksOuter == TRUE

\* one pass of the body of the inner loop
OptimiseFactor ==
    /\ pc = "running"
    /\ ~LoopDone(step, max_steps)
    /\ idx <= Len(RunItems)
    /\ LET factor == RunItems[idx][1]
           optimiser == RunItems[idx][2]
           out == Optimise(optimiser, kind[factor])
       IN /\ attempts' = Append(attempts, factor)
          /\ IF out.raises # NoException /\ ~Caught(out.raises)
             THEN /\ pc' = "raised"
                  /\ error' = out.raises
                  /\ reads' = Append(reads, Attempt(model_approx, None))
                  /\ UNCHANGED <<step, idx, model_approx, ep_history, snapshots, terminated_at,
                                 returned>>
             ELSE LET status == IF out.raises # NoException
                                THEN ErrorStatus(factor, out.raises)
                                ELSE out.status
                      given == model_approx
                      result == IF out.raises # NoException THEN None
                                ELSE Some(IF out.merged THEN Merged(given, factor) ELSE given)
                      approx == WriteBack(model_approx, result)
                  IN /\ model_approx' = approx
                     /\ reads' = Append(reads, Attempt(given, result))
                     /\ ep_history' = HistoryCall(ep_history, factor, status)
                     /\ snapshots' = HistorySnapshots(snapshots, factor, approx, status)
                     /\ error' = error
                     /\ \E stop \in CallbackAnswers(callback) :
                           IF stop
                           THEN /\ terminated_at' = Len(attempts')
                                /\ IF BreaksOuter
                                   THEN /\ pc' = "returned"
                                        /\ returned' = Some(approx)
                                        /\ UNCHANGED <<step, idx>>
                                   ELSE /\ step' = NextStep(step)
                                        /\ idx' = 1
                                        /\ UNCHANGED <<pc, returned>>
                           ELSE /\ idx' = idx + 1
                                /\ UNCHANGED <<pc, step, terminated_at, returned>>
    /\ UNCHANGED <<init_args, kind, factors, factor_optimisers, callback, max_steps>>
    /\ UNCHANGED not_ep_vars

\* the inner loop ended without a break: the next sweep
SweepEnd ==
    /\ pc = "running"
    /\ ~LoopDone(step, max_steps)
    /\ idx > Len(RunItems)
    /\ step' = NextStep(step)
    /\ idx' = 1
    /\ UNCHANGED <<pc, init_args, kind, factors, factor_optimisers, callback, max_steps,
                   model_approx, ep_history, snapshots, attempts, reads, terminated_at, error, returned>>
    /\ UNCHANGED not_ep_vars

\* the outer loop ended: return model_approx
Return ==
    /\ pc = "running"
    /\ LoopDone(step, max_steps)
    /\ pc' = "returned"
    /\ returned' = Some(model_approx)
    /\ UNCHANGED <<init_args, kind, factors, factor_optimisers, callback, max_steps,
                   step, idx, model_approx, ep_history, snapshots, attempts, reads, terminated_at, error>>
    /\ UNCHANGED not_ep_vars

\* -------------------------------------------------------------------------
\* Numbers: rationals num/den with den > 0 in lowest terms; den = 0 is a
\* non-finite float (nan, inf)
RECURSIVE GCD(_, _)
GCD(a, b) == IF b = 0 THEN a ELSE GCD(b, a % b)
Abs(n) == IF n < 0 THEN -n ELSE n
NaN == [num |-> 0, den |-> 0]
Rat(n, d) ==
    IF d = 0 THEN NaN
    ELSE LET g == GCD(Abs(n), Abs(d))
             sgn == IF d < 0 THEN -1 ELSE 1
         IN [num |-> sgn * (n \div g), den |-> sgn * (d \div g)]
Num(n) == Rat(n, 1)
Finite(x) == x.den # 0
RAdd(x, y) ==
    IF Finite(x) /\ Finite(y) THEN Rat(x.num * y.den + y.num * x.den, x.den * y.den) ELSE NaN
RNeg(x) == IF Finite(x) THEN Rat(-x.num, x.den) ELSE NaN
RSub(x, y) == RAdd(x, RNeg(y))
RMul(x, y) == IF Finite(x) /\ Finite(y) THEN Rat(x.num * y.num, x.den * y.den) ELSE NaN
RDiv(x, y) == IF Finite(x) /\ Finite(y) THEN Rat(x.num * y.den, x.den * y.num) ELSE NaN

RLess(x, y) == Finite(x) /\ Finite(y) /\ x.num * y.den < y.num * x.den

\* -------------------------------------------------------------------------
\* AbstractMessage, with the family of the Normal in (mean, precision)
Message(id, parameters, log_norm) ==
    [id |-> id, parameters |-> parameters, log_norm |-> log_norm]
NoMessage == Message(0, <<>>, Num(0))

\* eta = (mean * precision, -precision / 2)
natural_parameters(m) ==
    <<RMul(m.parameters[1], m.parameters[2]), RDiv(RNeg(m.parameters[2]), Num(2))>>
\* precision = -2 * eta2, mean = eta1 / precision
invert_natural_parameters(eta) ==
    LET precision == RMul(Num(-2), eta[2])
    IN <<RDiv(eta[1], precision), precision>>
\* the natural parameters taken for the parameters
from_natural_uninverted(eta, log_norm, id) == Message(id, eta, log_norm)
\* cls_(*args, **kwargs): log_norm is 0. unless it is passed
from_natural_parameters(eta, log_norm, id) ==
    Message(id, invert_natural_parameters(eta), log_norm)

check_finite(m) == \A i \in DOMAIN m.parameters : Finite(natural_parameters(m)[i])
\* every parameter inside its support: the precision is positive
check_support(m) == m.parameters[2].num > 0
is_valid(m) == check_finite(m) /\ check_support(m)

EtaAdd(x, y) == [i \in DOMAIN x |-> RAdd(x[i], y[i])]
EtaSub(x, y) == [i \in DOMAIN x |-> RSub(x[i], y[i])]
RECURSIVE EtaSum(_, _)
\* sum((dist.natural_parameters for dist in dists), start)
EtaSum(dists, start) ==
    IF dists = <<>> THEN start
    ELSE EtaAdd(EtaSum(SubSeq(dists, 1, Len(dists) - 1), start),
                natural_parameters(dists[Len(dists)]))

Raised(e) == [raised |-> e, value |-> NoMessage]
Result(m) == [raised |-> NoException, value |-> m]

\* the wrapper of assert_ids_match: does it raise?
IdCheckAbsent(flag, self, other) == FALSE
IdsMismatch(flag, self, other) == flag /\ self.id # other.id
assert_ids_match(flag, self, other, result) ==
    IF IdsMismatch(flag, self, other) THEN Raised("AssertionError") ELSE result

\* sum(...) without its start value
sum_of_others(self, dists) ==
    Result(from_natural_parameters(EtaSum(dists, <<Num(0), Num(0)>>), Num(0), self.id))
sum_natural_parameters(self, dists) ==
    Result(from_natural_parameters(EtaSum(dists, natural_parameters(self)), Num(0), self.id))

sub_natural_parameters(flag, self, other) ==
    assert_ids_match(flag, self, other,
        Result(from_natural_parameters(
                   EtaSub(natural_parameters(self), natural_parameters(other)),
                   RSub(self.log_norm, other.log_norm),
                   self.id)))

\* self * other, other a Message
Mul(flag, self, other) ==
    assert_ids_match(flag, self, other, sum_natural_parameters(self, <<other>>))
\* self / other, other a Message
Truediv(flag, self, other) ==
    assert_ids_match(flag, self, other, sub_natural_parameters(flag, self, other))

Ids == {1, 2}
InputMessages ==
    {Message(i, <<Num(m), Num(p)>>, Num(l)) :
        i \in Ids, m \in (-MaxMean)..MaxMean, p \in 1..MaxPrecision, l \in 0..MaxLogNorm}
Operations == {"__mul__", "__truediv__", "sum_natural_parameters", "sub_natural_parameters"}

Apply(op, flag, self, other) ==
    CASE op = "__mul__" -> Mul(flag, self, other)
      [] op = "__truediv__" -> Truediv(flag, self, other)
      [] op = "sum_natural_parameters" -> sum_natural_parameters(self, <<other>>)
      [] op = "sub_natural_parameters" -> sub_natural_parameters(flag, self, other)

\* one call of an operation of msg_a with msg_b
Operate(op) ==
    /\ msg_a # NoMessage
    /\ msg_op' = op
    /\ msg_result' = Apply(op, enforce_id_match, msg_a, msg_b)
    /\ UNCHANGED <<enforce_id_match, msg_a, msg_b>>
    /\ UNCHANGED not_msg_vars

\* the module's flag is assigned
SetEnforceIdMatch(flag) ==
    /\ enforce_id_match # flag
    /\ enforce_id_match' = flag
    /\ msg_op' = "-"
    /\ msg_result' = Result(NoMessage)
    /\ UNCHANGED <<msg_a, msg_b>>
    /\ UNCHANGED not_msg_vars

\* -------------------------------------------------------------------------
\* The operators * / ** on Message objects.  log_norm is held in units of
\* ln 2, so that np.log of the real 2^k is k.
RECURSIVE TwoTo(_)
TwoTo(k) == IF k = 0 THEN Num(1) ELSE IF k > 0 THEN RMul(Num(2), TwoTo(k - 1))
            ELSE RDiv(TwoTo(k + 1), Num(2))
Real(k) == [value |-> TwoTo(k), log |-> Num(k)]
\* np.log(0.) is -inf
Zero == [value |-> Num(0), log |-> NaN]
Reals == {Zero, Real(-1), Real(1)}
np_log(x) == x.log

EtaScale(x, eta) == [i \in DOMAIN eta |-> RMul(x, eta[i])]

\* self * other, other a real
MulReal(self, other) ==
    Result(Message(self.id, self.parameters, RAdd(self.log_norm, np_log(other))))
\* self / other, other a real
TruedivReal(self, other) ==
    Result(Message(self.id, self.parameters, RSub(self.log_norm, np_log(other))))
\* self ** other
Pow(self, other) ==
    Result(from_natural_parameters(EtaScale(other.value, natural_parameters(self)),
                                   RMul(other.value, self.log_norm), self.id))

\* an object: the Message and whether its cached natural_parameters is filled
Object(m, cached) == [msg |-> m, cached |-> cached]
MessageAt(j) == [type |-> "Message", at |-> j, real |-> Zero]
RealOperand(x) == [type |-> "Real", at |-> 0, real |-> x]
Operators == {"__mul__", "__truediv__", "__pow__"}
OperandsOf(op, h) ==
    IF op = "__pow__" THEN {RealOperand(x) : x \in Reals}
    ELSE {MessageAt(j) : j \in DOMAIN h} \cup {RealOperand(x) : x \in Reals}

\* isinstance(other, AbstractMessage) picks the branch
ApplyOperator(op, flag, self, other, h) ==
    CASE op = "__pow__" -> Pow(self, other.real)
      [] op = "__mul__" /\ other.type = "Message" -> Mul(flag, self, h[other.at].msg)
      [] op = "__mul__" /\ other.type = "Real" -> MulReal(self, other.real)
      [] op = "__truediv__" /\ other.type = "Message" -> Truediv(flag, self, h[other.at].msg)
      [] op = "__truediv__" /\ other.type = "Real" -> TruedivReal(self, other.real)

\* the objects whose natural_parameters the operator reads
ReadsNatural(op, i, other) ==
    IF other.type = "Message" THEN {i, other.at}
    ELSE IF op = "__pow__" THEN {i} ELSE {}
FillCache(h, read) == [a \in DOMAIN h |-> Object(h[a].msg, h[a].cached \/ a \in read)]

\* the result is built by the constructor: an object of its own
NewMessageInPlace(h, i, m) == [heap |-> [h EXCEPT ![i] = Object(m, FALSE)], address |-> i]
NewMessage(h, i, m) == [heap |-> Append(h, Object(m, FALSE)), address |-> Len(h) + 1]

\* heap[i] <op> other
Operator(op, i, other) ==
    /\ Len(heap) < MaxObjects
    /\ LET result == ApplyOperator(op, enforce_id_match, heap[i].msg, other, heap)
       IN IF result.raised # NoException
          THEN /\ heap' = heap
               /\ last' = [op |-> op, self |-> i, other |-> other,
                           raised |-> result.raised, result |-> 0]
          ELSE LET made == NewMessage(FillCache(heap, ReadsNatural(op, i, other)), i,
                                      result.value)
               IN /\ heap' = made.heap
                  /\ last' = [op |-> op, self |-> i, other |-> other,
                              raised |-> NoException, result |-> made.address]
    /\ UNCHANGED not_heap_vars

NoOperation == [op |-> "-", self |-> 0, other |-> RealOperand(Zero),
                raised |-> NoException, result |-> 0]
InitHeapIdle == heap = <<>> /\ last = NoOperation

\* -------------------------------------------------------------------------
\* EPMeanField (the mean field, and each factor's own distribution in it) and
\* the merges of AbstractFactorOptimiser
Variables == {"x", "y"}
VariableId(v) == IF v = "x" THEN 1 ELSE 2
\* the two factors over one shared variable
OneShared == [f \in FactorSet |-> {"x"}]
\* y is a variable of f1 alone
OneOwn == [f \in FactorSet |-> IF f = "f1" THEN {"x", "y"} ELSE {"x"}]
Graphs == {OneShared, OneOwn}
all_variables(g) == UNION {g[f] : f \in FactorSet}
\* the number of factors referencing each variable
variable_message_count(g) ==
    [v \in all_variables(g) |-> Cardinality({f \in FactorSet : v \in g[f]})]

Normal(v, mean, precision) == Message(VariableId(v), <<Num(mean), Num(precision)>>, Num(0))
\* the multiplicative identity: zero natural parameters, zero log_norm
Identity(v) == Normal(v, 0, 0)
IsIdentity(m) == natural_parameters(m) = <<Num(0), Num(0)>> /\ m.log_norm = Num(0)
\* f1: the Normal likelihood of the observed value 2.0 with precision 1.0 (and
\* a factor of y); f2: the Normal prior of mean 0.0 and precision 1.0
FactorDensity(f, v) ==
    IF f = "f2" THEN Normal(v, 0, 1)
    ELSE IF v = "x" THEN Normal(v, 2, 1) ELSE Normal(v, 1, 1)

EPMeanField(mean_field, factor_dist) == [mean_field |-> mean_field, factor_dist |-> factor_dist]
\* before any factor has contributed
from_approx_dists(g, approx_dists) ==
    EPMeanField(approx_dists, [f \in FactorSet |-> [v \in g[f] |-> Identity(v)]])

\* cavity = q[v] / (the factor's own contribution to v); q[v] itself while the
\* factor has contributed nothing
cavity_of(flag, q, own) == IF IsIdentity(own) THEN q ELSE Truediv(flag, q, own).value
factor_approximation(flag, model, g, f) ==
    [factor |-> f,
     cavity_dist |-> [v \in g[f] |-> cavity_of(flag, model.mean_field[v], model.factor_dist[f][v])],
     factor_dist |-> model.factor_dist[f],
     model_dist |-> [v \in g[f] |-> model.mean_field[v]]]

\* the factor is a density of the family: its exact update is itself, its exact
\* projection the cavity times itself
calc_exact_update(flag, g, f, cavity_dist) == [v \in g[f] |-> FactorDensity(f, v)]
calc_exact_projection(flag, g, f, cavity_dist) ==
    [v \in g[f] |-> Mul(flag, cavity_dist[v], FactorDensity(f, v)).value]

update_factor_mean_field(flag, model, g, f, new_factor_dist) ==
    LET cavity_dist == factor_approximation(flag, model, g, f).cavity_dist
    IN EPMeanField(
           [v \in DOMAIN model.mean_field |->
               IF v \in g[f] THEN Mul(flag, cavity_dist[v], new_factor_dist[v]).value
               ELSE model.mean_field[v]],
           [model.factor_dist EXCEPT ![f] = new_factor_dist])

\* new = old^(1 - delta) * proposal^delta, by interpolation of the natural parameters
Interpolate(old, proposal, delta) ==
    from_natural_parameters(
        EtaAdd(EtaScale(RSub(Num(1), delta), natural_parameters(old)),
               EtaScale(delta, natural_parameters(proposal))),
        RAdd(RMul(RSub(Num(1), delta), old.log_norm), RMul(delta, proposal.log_norm)),
        old.id)

\* delta: one value per variable
project_mean_field(flag, model, g, new_model_dist, factor_approx, delta) ==
    LET f == factor_approx.factor
        merged == [v \in g[f] |-> Interpolate(model.mean_field[v], new_model_dist[v], delta[v])]
    IN EPMeanField(
           [v \in DOMAIN model.mean_field |->
               IF v \in g[f] THEN merged[v] ELSE model.mean_field[v]],
           [model.factor_dist EXCEPT ![f] =
               [v \in g[f] |-> Truediv(flag, merged[v], factor_approx.cavity_dist[v]).value]])

\* AbstractFactorOptimiser(deltas, delta, dynamic_delta)
FactorOptimiser(deltas, delta, dynamic_delta) ==
    [deltas |-> deltas, delta |-> delta, dynamic_delta |-> dynamic_delta]
min(S) == CHOOSE m \in S : \A n \in S : m <= n
\* x or y
Falsy(x) == x = None \/ ValueOf(x) = Num(0)
Or(x, y) == IF Falsy(x) THEN y ELSE ValueOf(x)
Everywhere(g, delta) == [v \in all_variables(g) |-> delta]
\* self.delta * (min_value / message_count), per variable
DynamicDeltaUnscaled(self, counts) == [v \in DOMAIN counts |-> self.delta]
DynamicDelta(self, counts) ==
    LET min_value == min({counts[v] : v \in DOMAIN counts})
    IN [v \in DOMAIN counts |-> RMul(self.delta, RDiv(Num(min_value), Num(counts[v])))]
\* the delta update_model_approx passes on
MergeDelta(self, g, f, delta_arg) ==
    LET delta == Or(delta_arg, self.delta)
    IN IF f \in DOMAIN self.deltas THEN Everywhere(g, self.deltas[f])
       ELSE IF self.dynamic_delta THEN DynamicDelta(self, variable_message_count(g))
       ELSE Everywhere(g, delta)

\* the factor's new distribution returned in place of the mean field
update_returns_dist(flag, self, g, new_model_dist, factor_approx, model, delta_arg) ==
    EPMeanField(new_model_dist, model.factor_dist)
update_model_approx(flag, self, g, new_model_dist, factor_approx, model, delta_arg) ==
    project_mean_field(flag, model, g, new_model_dist, factor_approx,
                       MergeDelta(self, g, factor_approx.factor, delta_arg))

\* exact_fit, for a factor with an exact update or an exact projection
exact_fit_merge(flag, self, g, how, f, model) ==
    LET factor_approx == factor_approximation(flag, model, g, f)
    IN IF how = "update"
       THEN update_factor_mean_field(flag, model, g, f,
                calc_exact_update(flag, g, f, factor_approx.cavity_dist))
       ELSE update_model_approx(flag, self, g,
                calc_exact_projection(flag, g, f, factor_approx.cavity_dist),
                factor_approx, model, None)

Call(op, f, delta_arg, delta, factor_approx, proposal, before) ==
    [op |-> op, factor |-> f, delta_arg |-> delta_arg, delta |-> delta,
     cavity_dist |-> factor_approx.cavity_dist, proposal |-> proposal, before |-> before]

\* optimiser.optimise(factor, model_approx) of an ExactFactorFit
ExactFit(f) ==
    /\ Len(trail) < MaxCalls
    /\ LET factor_approx == factor_approximation(enforce_id_match, mf, graph, f)
       IN /\ mf' = exact_fit_merge(enforce_id_match, opt, graph, exact[f], f, mf)
          /\ trail' = Append(trail,
                 Call("exact_fit", f, None, MergeDelta(opt, graph, f, None), factor_approx,
                      calc_exact_projection(enforce_id_match, graph, f, factor_approx.cavity_dist),
                      mf.mean_field))
    /\ UNCHANGED <<graph, exact, opt, mf0>>
    /\ UNCHANGED not_mf_vars

\* optimiser.update_model_approx(new_model_dist, factor_approx, model_approx, status, delta)
UpdateModelApprox(f, delta_arg) ==
    /\ Len(trail) < MaxCalls
    /\ LET factor_approx == factor_approximation(enforce_id_match, mf, graph, f)
           new_model_dist == calc_exact_projection(enforce_id_match, graph, f,
                                                   factor_approx.cavity_dist)
       IN /\ mf' = update_model_approx(enforce_id_match, opt, graph, new_model_dist,
                                       factor_approx, mf, delta_arg)
          /\ trail' = Append(trail,
                 Call("update_model_approx", f, delta_arg,
                      MergeDelta(opt, graph, f, delta_arg), factor_approx, new_model_dist,
                      mf.mean_field))
    /\ UNCHANGED <<graph, exact, opt, mf0>>
    /\ UNCHANGED not_mf_vars

\* an optimise whose search proposes the model distribution it was given
StaticOptimise(f) ==
    /\ Len(trail) < MaxCalls
    /\ LET factor_approx == factor_approximation(enforce_id_match, mf, graph, f)
           new_model_dist == factor_approx.model_dist
       IN /\ mf' = update_model_approx(enforce_id_match, opt, graph, new_model_dist,
                                       factor_approx, mf, None)
          /\ trail' = Append(trail,
                 Call("static", f, None, MergeDelta(opt, graph, f, None), factor_approx,
                      new_model_dist, mf.mean_field))
    /\ UNCHANGED <<graph, exact, opt, mf0>>
    /\ UNCHANGED not_mf_vars

\* an optimise call that raises: run keeps the mean field it had
OptimiseRaises(f) ==
    /\ Len(trail) < MaxCalls
    /\ LET factor_approx == factor_approximation(enforce_id_match, mf, graph, f)
       IN trail' = Append(trail,
              Call("raised", f, None, MergeDelta(opt, graph, f, None), factor_approx,
                   factor_approx.model_dist, mf.mean_field))
    /\ UNCHANGED <<graph, exact, opt, mf0, mf>>
    /\ UNCHANGED not_mf_vars

\* -------------------------------------------------------------------------
\* AbstractMessage.project.  Log weights are held in units of ln 2, so that
\* np.exp of the log weight k is 2^k; -inf is a log weight of its own, since
\* np.exp(-inf) is the finite 0.
MinusInf == [num |-> -1, den |-> 0]
SetMax(S) == CHOOSE x \in S : \A y \in S : y <= x
\* np.max over the log weights: nan if one of them is nan
np_max(ws) ==
    IF \E i \in DOMAIN ws : ws[i] = NaN THEN NaN
    ELSE IF \A i \in DOMAIN ws : ws[i] = MinusInf THEN MinusInf
    ELSE Num(SetMax({ws[i].num : i \in {j \in DOMAIN ws : Finite(ws[j])}}))
\* log_weight_list - log_w_max: -inf - -inf is nan
LogWeightDiff(lw, log_w_max) ==
    IF lw = NaN \/ log_w_max = NaN THEN NaN
    ELSE IF log_w_max = MinusInf THEN NaN
    ELSE IF lw = MinusInf THEN MinusInf
    ELSE RSub(lw, log_w_max)
np_exp(x) ==
    IF x = MinusInf THEN Num(0) ELSE IF ~Finite(x) THEN NaN ELSE TwoTo(x.num)
RECURSIVE RSum(_)
RSum(xs) == IF xs = <<>> THEN Num(0) ELSE RAdd(xs[1], RSum(Tail(xs)))
\* xs.mean(...)
Mean(xs) == RDiv(RSum(xs), Num(Len(xs)))
\* np.log(norm) + log_w_max[0], kept as written
LogNorm(norm, log_w_max) == [log_of |-> norm, plus |-> log_w_max]

\* the sufficient statistics of the Normal are the means of x and x^2
to_canonical_form(x) == <<x, RMul(x, x)>>
\* variance = E[x^2] - E[x]^2, eta = (mean / variance, -1 / (2 variance))
invert_sufficient_statistics(suff_stats) ==
    LET variance == RSub(suff_stats[2], RMul(suff_stats[1], suff_stats[1]))
    IN <<RDiv(suff_stats[1], variance), RDiv(Num(-1), RMul(Num(2), variance))>>
from_sufficient_statistics(suff_stats, log_norm, id) ==
    from_natural_parameters(invert_sufficient_statistics(suff_stats), log_norm, id)

\* log_weight_list = np.zeros_like(samples) when none is passed
LogWeights(xs, log_weights) ==
    IF log_weights = None THEN [i \in DOMAIN xs |-> Num(0)] ELSE log_weights[1]
\* norm, log_w_max and suff_stats as project computes them
Statistics(xs, log_weights) ==
    LET lws == LogWeights(xs, log_weights)
        log_w_max == np_max(lws)
        w == [i \in DOMAIN xs |-> np_exp(LogWeightDiff(lws[i], log_w_max))]
        norm == Mean(w)
        wn == [i \in DOMAIN xs |-> RDiv(w[i], norm)]
        tx == [i \in DOMAIN xs |-> to_canonical_form(xs[i])]
    IN [norm |-> norm,
        log_w_max |-> log_w_max,
        suff_stats |-> [k \in 1..2 |-> Mean([i \in DOMAIN xs |-> RMul(tx[i][k], wn[i])])]]

\* the assertion left out
AssertNothing(suff_stats) == TRUE
\* assert np.isfinite(suff_stats).all()
AssertFinite(suff_stats) == \A k \in DOMAIN suff_stats : Finite(suff_stats[k])

project(xs, log_weights, id) ==
    LET s == Statistics(xs, log_weights)
    IN IF ~AssertFinite(s.suff_stats) THEN Raised("AssertionError")
       ELSE Result(from_sufficient_statistics(s.suff_stats, LogNorm(s.norm, s.log_w_max), id))

NotProjected == Result(NoMessage)
\* one call of project
Project ==
    /\ projected = NotProjected
    /\ projected' = project(samples, log_weight_list, 1)
    /\ UNCHANGED <<samples, log_weight_list>>
    /\ UNCHANGED not_proj_vars

InitProjIdle ==
    /\ samples = <<>>
    /\ log_weight_list = None
    /\ projected = NotProjected

\* -------------------------------------------------------------------------
\* LaplaceOptimiser: __init__ keeps max_iter and n_refine
NewLaplaceOptimiser(max_iter, n_refine) == [max_iter |-> max_iter, n_refine |-> n_refine]
Kwargs(max_iter, n_refine) == [max_iter |-> max_iter, n_refine |-> n_refine]
\* kws = {**self.default_kws, **kwargs}: a key of kwargs replaces the default
Kws(self, kwargs) ==
    [max_iter |-> IF kwargs.max_iter = None THEN self.max_iter ELSE kwargs.max_iter[1],
     n_refine |-> IF kwargs.n_refine = None THEN self.n_refine ELSE kwargs.n_refine[1]]
\* kwargs.get("n_refine")
KwargsGet(kwargs) == kwargs.n_refine
\* n_refine taken from the call whenever the call gives one
NRefineOfCall(self, n_refine) == IF n_refine = None THEN self.n_refine ELSE n_refine[1]
\* n_refine or self.n_refine: None and 0 are falsy
NRefine(self, n_refine) ==
    IF n_refine = None \/ n_refine[1] = 0 THEN self.n_refine ELSE n_refine[1]

FlagStatus(flag, messages) ==
    [success |-> flag = "SUCCESS", messages |-> messages, flag |-> flag]
\* the stop condition holds, or the line search fails, after objective.at iterations
Stops(obj, n) == n >= 1 /\ n = obj.at
\* the Status of the quasi-Newton phase after n iterations
QuasiNewtonStatus(obj, n) ==
    IF Stops(obj, n)
    THEN IF obj.kind = "converges" THEN FlagStatus("SUCCESS", <<"converged">>)
         ELSE FlagStatus("FAILED", <<"line search failed">>)
    ELSE FlagStatus("MAX_ITER_EXCEEDED", <<"max iterations reached">>)

\* a refined result counted as a success
StatusAfterRefine(status, passes) ==
    IF passes > 0 THEN FlagStatus("SUCCESS", <<>>) ELSE status
\* return projection, status
ReturnedStatus(status, passes) == status
\* self.update_model_approx(new_model_dist, factor_approx, model_approx, status)
MergedStatus(status) == status

\* an OptimisationState, by what made it: the quasi-Newton iterations and the
\* refinement updates applied to the state prepare_state gave
OptimisationState(iterations, updates) == [iterations |-> iterations, updates |-> updates]
PreparedState == OptimisationState(0, 0)
\* take_quasi_newton_step gives a new state; the one it is given stays as it was
QuasiNewtonStep(state) == OptimisationState(state.iterations + 1, state.updates)
\* self.quasi_newton_update(next_state, new_state, ...)
QuasiNewtonUpdate(state) == OptimisationState(state.iterations, state.updates + 1)
\* self.refine(state, ...): next_state = state
RefineStart(state, reached) == state

\* factor_approximation and prepare_state
PrepareState ==
    /\ lap_pc = "initialized"
    /\ lap_pc' = "iterating"
    /\ next_state' = PreparedState
    /\ UNCHANGED <<lap_self, lap_kwargs, objective, lap_iter, lap_passes, lap_status,
                   lap_returned, lap_merged>>
    /\ UNCHANGED not_lap_vars

\* one iteration of optimise_quasi_newton
Iterate ==
    /\ lap_pc = "iterating"
    /\ lap_iter < Kws(lap_self, lap_kwargs).max_iter
    /\ ~Stops(objective, lap_iter)
    /\ lap_iter' = lap_iter + 1
    /\ next_state' = QuasiNewtonStep(next_state)
    /\ UNCHANGED <<lap_pc, lap_self, lap_kwargs, objective, lap_passes, lap_status,
                   lap_returned, lap_merged>>
    /\ UNCHANGED not_lap_vars

\* optimise_quasi_newton returns; if status.flag != StatusFlag.SUCCESS: refine
EndQuasiNewton ==
    /\ lap_pc = "iterating"
    /\ lap_iter >= Kws(lap_self, lap_kwargs).max_iter \/ Stops(objective, lap_iter)
    /\ LET status == QuasiNewtonStatus(objective, lap_iter)
       IN /\ lap_status' = Some(status)
          /\ lap_pc' = IF status.flag # "SUCCESS" THEN "refining" ELSE "refined"
    /\ next_state' = IF QuasiNewtonStatus(objective, lap_iter).flag # "SUCCESS"
                     THEN RefineStart(PreparedState, next_state) ELSE next_state
    /\ UNCHANGED <<lap_self, lap_kwargs, objective, lap_iter, lap_passes, lap_returned,
                   lap_merged>>
    /\ UNCHANGED not_lap_vars

\* one pass of the loop of refine
RefinePass ==
    /\ lap_pc = "refining"
    /\ lap_passes < NRefine(lap_self, KwargsGet(lap_kwargs))
    /\ lap_passes' = lap_passes + 1
    /\ next_state' = QuasiNewtonUpdate(next_state)
    /\ UNCHANGED <<lap_pc, lap_self, lap_kwargs, objective, lap_iter, lap_status,
                   lap_returned, lap_merged>>
    /\ UNCHANGED not_lap_vars

\* refine returns next_state
EndRefine ==
    /\ lap_pc = "refining"
    /\ lap_passes >= NRefine(lap_self, KwargsGet(lap_kwargs))
    /\ lap_pc' = "refined"
    /\ UNCHANGED <<lap_self, lap_kwargs, objective, lap_iter, lap_passes, lap_status,
                   lap_returned, lap_merged,
                   next_state>>
    /\ UNCHANGED not_lap_vars

\* optimise_approx returns the projection and the status
ReturnApprox ==
    /\ lap_pc = "refined"
    /\ lap_returned' = Some(ReturnedStatus(lap_status[1], lap_passes))
    /\ lap_pc' = "returned"
    /\ UNCHANGED <<lap_self, lap_kwargs, objective, lap_iter, lap_passes, lap_status,
                   lap_merged,
                   next_state>>
    /\ UNCHANGED not_lap_vars

\* optimise calls update_model_approx
MergeApprox ==
    /\ lap_pc = "returned"
    /\ lap_merged' = Some(MergedStatus(lap_returned[1]))
    /\ lap_pc' = "done"
    /\ UNCHANGED <<lap_self, lap_kwargs, objective, lap_iter, lap_passes, lap_status,
                   lap_returned,
                   next_state>>
    /\ UNCHANGED not_lap_vars

InitLapIdle ==
    /\ lap_pc = "done"
    /\ lap_self = NewLaplaceOptimiser(0, 0)
    /\ lap_kwargs = Kwargs(None, None)
    /\ objective = [kind |-> "converges", at |-> 1]
    /\ lap_iter = 0
    /\ lap_passes = 0
    /\ lap_status = None
    /\ lap_returned = None
    /\ lap_merged = None
    /\ next_state = PreparedState

\* -------------------------------------------------------------------------
\* Process.run.  Every Process of run_jobs is constructed with the same
\* initializer, initargs and job_args, and is started after the jobs are put.
Processes == 1..MaxProcesses
NewProcess(initializer, initargs, job_args) ==
    [initializer |-> initializer, initargs |-> initargs, job_args |-> job_args]
\* a Process at a position of run, holding a job (0: none)
At(pc_, job) == [pc |-> pc_, job |-> job]
\* tuple(self.initargs) if it is iterable, (self.initargs,) otherwise
InitArgs(initargs) ==
    IF initargs.iterable THEN initargs.items ELSE <<initargs.scalar>>
\* job.perform(*self.job_args)
PerformJob(job, job_args) == [number |-> job, args |-> job_args]

\* Queue.get() takes the item off the queue
QueueLeft(q) == q
QueueGet(q) == Tail(q)
\* run_jobs at a position: "check" (while count < total), "sweep" (the for loop
\* over the processes, at process w), "join" (at process w), "returned"
RunJobsAt(pc_, w) == [pc |-> pc_, w |-> w]

\* the start of run: the initializer, if there is one
RunInitializer(w) ==
    /\ proc[w].pc = "started"
    /\ IF ~proc_self.initializer
       THEN /\ proc' = [proc EXCEPT ![w] = At("loop", 0)]
            /\ UNCHANGED initialized
       ELSE IF proc_self.initargs = None
       THEN \* return self.initializer()
            /\ initialized' = [initialized EXCEPT ![w] = Some(<<>>)]
            /\ proc' = [proc EXCEPT ![w] = At("stopped", 0)]
       ELSE IF ~has_iterable
       THEN \* collections.Iterable: AttributeError
            /\ proc' = [proc EXCEPT ![w] = At("raised", 0)]
            /\ UNCHANGED initialized
       ELSE /\ initialized' = [initialized EXCEPT ![w] = Some(InitArgs(proc_self.initargs[1]))]
            /\ proc' = [proc EXCEPT ![w] = At("loop", 0)]
    /\ UNCHANGED <<proc_self, has_iterable, job_queue, queue, total, rj, yielded>>
    /\ UNCHANGED not_proc_vars

\* if self.job_queue.empty(): break
CheckEmpty(w) ==
    /\ proc[w].pc = "loop"
    /\ proc' = [proc EXCEPT ![w] = At(IF job_queue = <<>> THEN "stopped" ELSE "get", 0)]
    /\ UNCHANGED <<proc_self, has_iterable, job_queue, initialized, queue, total, rj, yielded>>
    /\ UNCHANGED not_proc_vars

\* job = self.job_queue.get(): waits while the queue is empty
GetJob(w) ==
    /\ proc[w].pc = "get"
    /\ job_queue # <<>>
    /\ proc' = [proc EXCEPT ![w] = At("perform", Head(job_queue))]
    /\ job_queue' = QueueGet(job_queue)
    /\ UNCHANGED <<proc_self, has_iterable, initialized, queue, total, rj, yielded>>
    /\ UNCHANGED not_proc_vars

\* self.queue.put(job.perform(*self.job_args))
PutResult(w) ==
    /\ proc[w].pc = "perform"
    /\ queue' = [queue EXCEPT ![w] = Append(@, PerformJob(proc[w].job, proc_self.job_args))]
    /\ proc' = [proc EXCEPT ![w] = At("loop", 0)]
    /\ UNCHANGED <<proc_self, has_iterable, job_queue, initialized, total, rj, yielded>>
    /\ UNCHANGED not_proc_vars

\* while count < total: ... job_queue.close()
CheckCount ==
    /\ rj.pc = "check"
    /\ rj' = IF Len(yielded) < total THEN RunJobsAt("sweep", 1) ELSE RunJobsAt("join", 1)
    /\ UNCHANGED <<proc_self, has_iterable, job_queue, proc, initialized, queue, total, yielded>>
    /\ UNCHANGED not_proc_vars

\* while not process.queue.empty(): result = process.queue.get(); count += 1; yield result
YieldResult ==
    /\ rj.pc = "sweep"
    /\ queue[rj.w] # <<>>
    /\ yielded' = Append(yielded, Head(queue[rj.w]))
    /\ queue' = [queue EXCEPT ![rj.w] = QueueGet(@)]
    /\ UNCHANGED <<proc_self, has_iterable, job_queue, proc, initialized, total, rj>>
    /\ UNCHANGED not_proc_vars

\* the process's queue is empty: the for loop goes on to the next process
NextProcess ==
    /\ rj.pc = "sweep"
    /\ queue[rj.w] = <<>>
    /\ rj' = IF rj.w < MaxProcesses THEN RunJobsAt("sweep", rj.w + 1) ELSE RunJobsAt("check", 0)
    /\ UNCHANGED <<proc_self, has_iterable, job_queue, proc, initialized, queue, total, yielded>>
    /\ UNCHANGED not_proc_vars

\* process.join(timeout=1.0): returns when the process has ended, or after a second
Join ==
    /\ rj.pc = "join"
    /\ rj' = IF rj.w < MaxProcesses THEN RunJobsAt("join", rj.w + 1) ELSE RunJobsAt("returned", 0)
    /\ UNCHANGED <<proc_self, has_iterable, job_queue, proc, initialized, queue, total, yielded>>
    /\ UNCHANGED not_proc_vars

InitProcIdle ==
    /\ proc_self = NewProcess(FALSE, None, <<>>)
    /\ has_iterable = TRUE
    /\ job_queue = <<>>
    /\ proc = <<>>
    /\ initialized = <<>>
    /\ queue = <<>>
    /\ total = 0
    /\ rj = RunJobsAt("returned", 0)
    /\ yielded = <<>>

\* -------------------------------------------------------------------------
\* Analysis.should_visualize
VisArgs(env, paths, force, during_analysis, is_complete) ==
    [env |-> env, paths |-> paths, force |-> force, during_analysis |-> during_analysis,
     is_complete |-> is_complete]
\* isinstance(paths, DatabasePaths) or isinstance(paths, NullPaths)
WithoutOutput(paths) == paths \in {"DatabasePaths", "NullPaths"}
\* os.environ.get("PYAUTOFIT_TEST_MODE") == "1"
TestMode(env) == env = Some("1")
\* the config entry consulted before the test mode
should_visualize_force_first(a) ==
    IF a.force THEN TRUE
    ELSE IF TestMode(a.env) THEN FALSE
    ELSE IF WithoutOutput(a.paths) THEN FALSE
    ELSE IF ~a.during_analysis THEN TRUE
    ELSE ~a.is_complete
should_visualize(a) ==
    IF TestMode(a.env) THEN FALSE
    ELSE IF WithoutOutput(a.paths) THEN FALSE
    ELSE IF a.force THEN TRUE
    ELSE IF ~a.during_analysis THEN TRUE
    ELSE ~a.is_complete

\* one call of should_visualize
ShouldVisualize ==
    /\ vis_result = None
    /\ vis_result' = Some(should_visualize(vis_args))
    /\ UNCHANGED vis_args
    /\ UNCHANGED not_vis_vars

InitVisIdle ==
    /\ vis_args = VisArgs(None, "NullPaths", FALSE, TRUE, FALSE)
    /\ vis_result = None

\* -------------------------------------------------------------------------
\* GridSearchResult
RECURSIVE Power(_, _)
Power(k, d) == IF d = 0 THEN 1 ELSE k * Power(k, d - 1)
\* the whole part of the d-th root of n
IntRoot(n, d) == CHOOSE k \in 0..n : Power(k, d) <= n /\ n < Power(k + 1, d)
\* int(no_steps ** (1 / no_dimensions)) in floating point: 1 / d is exact for
\* d = 1 and d = 2; beyond, the power of a perfect d-th power may fall just
\* below its root, and int then gives one less
IntRoots(n, d) ==
    {IntRoot(n, d)} \cup
        (IF d > 2 /\ IntRoot(n, d) > 1 /\ Power(IntRoot(n, d), d) = n
         THEN {IntRoot(n, d) - 1} ELSE {})
\* a UniformPrior; value_for maps the unit interval onto [lower_limit, upper_limit]
UniformPrior(lower_limit, upper_limit) ==
    [lower_limit |-> Num(lower_limit), upper_limit |-> Num(upper_limit)]
value_for(prior, unit) ==
    RAdd(prior.lower_limit, RMul(unit, RSub(prior.upper_limit, prior.lower_limit)))

\* __init__, side_length being one of the values the power can give
GridSearchResult(lower_limits_lists, grid_priors, side_length) ==
    LET no_dimensions == Len(lower_limits_lists[1])
        no_steps == Len(lower_limits_lists)
    IN [no_dimensions |-> no_dimensions,
        no_steps |-> no_steps,
        lower_limits_lists |-> lower_limits_lists,
        side_length |-> side_length,
        step_size |-> RDiv(Num(1), Num(side_length)),
        grid_priors |-> grid_priors]

\* zip(a, b): as long as the shorter of the two
Zip(a, b) == 1..(IF Len(a) < Len(b) THEN Len(a) ELSE Len(b))
\* the step left out
upper_limits_are_lower(self) == self.lower_limits_lists
upper_limits_lists(self) ==
    [i \in DOMAIN self.lower_limits_lists |->
        [j \in DOMAIN self.lower_limits_lists[i] |->
            RAdd(self.lower_limits_lists[i][j], self.step_size)]]
centres_lists(self) ==
    [i \in Zip(self.lower_limits_lists, upper_limits_lists(self)) |->
        [j \in Zip(self.lower_limits_lists[i], upper_limits_lists(self)[i]) |->
            RDiv(RAdd(self.lower_limits_lists[i][j], upper_limits_lists(self)[i][j]), Num(2))]]
physical_values_for(self, unit_lists) ==
    [i \in DOMAIN unit_lists |->
        [j \in Zip(self.grid_priors, unit_lists[i]) |->
            value_for(self.grid_priors[j], unit_lists[i][j])]]
physical_lower_limits_lists(self) == physical_values_for(self, self.lower_limits_lists)
physical_centres_lists(self) == physical_values_for(self, centres_lists(self))
physical_upper_limits_lists(self) == physical_values_for(self, upper_limits_lists(self))

Properties ==
    {"upper_limits_lists", "centres_lists", "physical_lower_limits_lists",
     "physical_centres_lists", "physical_upper_limits_lists"}
Property(self, name) ==
    CASE name = "upper_limits_lists" -> upper_limits_lists(self)
      [] name = "centres_lists" -> centres_lists(self)
      [] name = "physical_lower_limits_lists" -> physical_lower_limits_lists(self)
      [] name = "physical_centres_lists" -> physical_centres_lists(self)
      [] name = "physical_upper_limits_lists" -> physical_upper_limits_lists(self)
NothingRead == [name |-> "-", value |-> <<>>]

\* one property of the result is read
ReadProperty(name) ==
    /\ grid_result # None
    /\ grid_read.name # name
    /\ grid_read' = [name |-> name, value |-> Property(grid_result[1], name)]
    /\ UNCHANGED grid_result
    /\ UNCHANGED not_grid_vars

InitGridIdle ==
    /\ grid_result = None
    /\ grid_read = NothingRead

\* -------------------------------------------------------------------------
\* exact_fit on EPMeanField objects: which object is updated, which returned
\* -------------------------------------------------------------------------
\* AbstractFactorOptimiser(deltas, inplace, delta, dynamic_delta)
NewFactorOptimiser(deltas, inplace, delta, dynamic_delta) ==
    [deltas |-> deltas, inplace |-> inplace, delta |-> delta, dynamic_delta |-> dynamic_delta]
\* model_approx.copy(): a new object with the contents of the old one
Copy(heap_, address) == Append(heap_, heap_[address])
\* new_approx = model_approx if self.inplace else model_approx.copy()
AlwaysInPlace(self, heap_, given) == [heap |-> heap_, new_approx |-> given]
NewApprox(self, heap_, given) ==
    IF self.inplace THEN [heap |-> heap_, new_approx |-> given]
    ELSE [heap |-> Copy(heap_, given), new_approx |-> Len(heap_) + 1]
\* new_approx.update_factor_mean_field(...): the receiver itself is changed
UpdateInPlace(flag, heap_, address, g, f, new_factor_dist) ==
    [heap_ EXCEPT ![address] = update_factor_mean_field(flag, heap_[address], g, f, new_factor_dist)]
\* exact_fit(factor, model_approx): the objects after the call and the address returned
exact_fit_objects(flag, self, g, how, f, heap_, given) ==
    LET factor_approx == factor_approximation(flag, heap_[given], g, f)
    IN IF how = "update"
       THEN LET made == NewApprox(self, heap_, given)
            IN [heap |-> UpdateInPlace(flag, made.heap, made.new_approx, g, f,
                             calc_exact_update(flag, g, f, factor_approx.cavity_dist)),
                returned |-> made.new_approx]
       ELSE [heap |-> Append(heap_,
                          update_model_approx(flag, self, g,
                              calc_exact_projection(flag, g, f, factor_approx.cavity_dist),
                              factor_approx, heap_[given], None)),
             returned |-> Len(heap_) + 1]

\* model_approx, status = optimiser.exact_fit(factor, model_approx)
ExactFitObject(f) ==
    /\ Len(fit_calls) < MaxCalls
    /\ LET out == exact_fit_objects(enforce_id_match, fit_self, OneShared, fit_exact[f], f,
                                    objects, held)
       IN /\ objects' = out.heap
          /\ held' = out.returned
          /\ fit_calls' = Append(fit_calls,
                 [factor |-> f, how |-> fit_exact[f], given |-> held, before |-> objects[held],
                  after |-> out.heap[held], returned |-> out.returned,
                  result |-> out.heap[out.returned]])
    /\ UNCHANGED <<fit_self, fit_exact>>
    /\ UNCHANGED not_fit_vars

InitFitIdle ==
    /\ fit_self = NewFactorOptimiser(<<>>, FALSE, Num(1), FALSE)
    /\ fit_exact = [f \in FactorSet |-> "update"]
    /\ objects = <<>>
    /\ held = 0
    /\ fit_calls = <<>>

\* -------------------------------------------------------------------------
\* database/migration: Migrator, Revision, Step, SessionWrapper
\* -------------------------------------------------------------------------
\* a string is a sequence of characters; ":".join(strings)
RECURSIVE JoinStrings(_)
JoinStrings(strings) ==
    IF strings = <<>> THEN <<>>
    ELSE IF Len(strings) = 1 THEN strings[1]
    ELSE strings[1] \o <<":">> \o JoinStrings(Tail(strings))
\* md5(...).hexdigest(): a digest stands for the string it was made from (two
\* strings have one digest only when they are equal); a digest holds no ":"
md5(string) == [md5 |-> string]
\* Step(*strings)
Step(strings) == [strings |-> strings]
\* Step.id
StepId(st) == md5(JoinStrings(st.strings))
\* Revision.id: the digest of the step ids joined with ":"; the ids hold no
\* ":", so the joined string is the sequence of the ids
RevisionId(steps) == md5([i \in DOMAIN steps |-> StepId(steps[i])])
\* Identifiable.__eq__ between two steps
StepEq(a, b) == StepId(a) = StepId(b)
\* step not in other.steps
NotIn(st, steps) == \A i \in DOMAIN steps : ~StepEq(st, steps[i])
\* Revision.__sub__: the steps of self that are not in other, by position
MinusByPosition(steps, other) == SubSeq(steps, Len(other) + 1, Len(steps))
Minus(steps, other) == SelectSeq(steps, LAMBDA st : NotIn(st, other))
\* Migrator.revisions: the revisions of steps[:1], steps[:2], ...
Revisions(steps) == [i \in 1..Len(steps) |-> SubSeq(steps, 1, i)]
\* Migrator.get_steps: the first revision with the id decides
get_steps(steps, revision_id) ==
    LET revisions == Revisions(steps)
        hits == {i \in DOMAIN revisions : revision_id = Some(RevisionId(revisions[i]))}
    IN IF hits = {} THEN steps
       ELSE Minus(steps, revisions[CHOOSE i \in hits : \A j \in hits : i <= j])
\* for step in steps: for string in step.strings
RECURSIVE Strings(_, _)
Strings(steps, i) ==
    IF i > Len(steps) THEN <<>>
    ELSE [k \in DOMAIN steps[i].strings |-> [step |-> steps[i], string |-> steps[i].strings[k]]]
         \o Strings(steps, i + 1)

\* a session: the revision table (absent, or its one row) and the statements
\* on which execute raises OperationalError
Session(table, row, failing) == [table |-> table, row |-> row, failing |-> failing]
\* SessionWrapper._init_revision_table
init_revision_table(s) == Session(TRUE, None, s.failing)
\* needs_revision_table: on OperationalError the table is made, then func again
needs_revision_table(s) == IF s.table THEN s ELSE init_revision_table(s)
\* SessionWrapper.revision_id (getter): the session after it, and the value
get_revision_id(s) == needs_revision_table(s).row
\* SessionWrapper.revision_id (setter)
set_revision_id(s, revision_id) ==
    Session(TRUE, Some(revision_id), s.failing)
\* the revision kept as read when a statement has failed
StoredWhenAllSucceeded(s, steps, log) ==
    IF \E i \in DOMAIN log : ~log[i].ok THEN needs_revision_table(s)
    ELSE set_revision_id(needs_revision_table(s), RevisionId(steps))
\* wrapper.revision_id = self.latest_revision.id
StoreLatest(s, steps, log) == set_revision_id(needs_revision_table(s), RevisionId(steps))

\* migrate: wrapper.revision_id is read and the steps are chosen
StartMigrate ==
    /\ mig_pc = "idle"
    /\ Len(mig_reads) < MaxCalls
    /\ LET revision_id == get_revision_id(session)
       IN /\ session' = needs_revision_table(session)
          /\ mig_reads' = Append(mig_reads, revision_id)
          /\ pending' = Strings(get_steps(mig_steps, revision_id), 1)
          /\ executed' = Append(executed, <<>>)
    /\ mig_pc' = "executing"
    /\ UNCHANGED mig_steps
    /\ UNCHANGED not_mig_vars

\* session.execute(string), an OperationalError passed over
Execute ==
    /\ mig_pc = "executing"
    /\ pending # <<>>
    /\ LET next == Head(pending)
           ok == next.string \notin session.failing
       IN executed' = [executed EXCEPT ![Len(executed)] =
                           Append(@, [step |-> next.step, string |-> next.string, ok |-> ok])]
    /\ pending' = Tail(pending)
    /\ UNCHANGED <<mig_steps, session, mig_pc, mig_reads>>
    /\ UNCHANGED not_mig_vars

\* the loops are over: the latest revision is stored and migrate returns
StoreRevision ==
    /\ mig_pc = "executing"
    /\ pending = <<>>
    /\ session' = StoreLatest(session, mig_steps, executed[Len(executed)])
    /\ mig_pc' = "idle"
    /\ UNCHANGED <<mig_steps, pending, executed, mig_reads>>
    /\ UNCHANGED not_mig_vars

InitMigIdle ==
    /\ mig_steps = <<>>
    /\ session = Session(FALSE, None, {})
    /\ mig_pc = "idle"
    /\ pending = <<>>
    /\ executed = <<>>
    /\ mig_reads = <<>>

\* -------------------------------------------------------------------------
\* database/query_model/condition: Table, the conditions and And
\* -------------------------------------------------------------------------
\* a str is the sequence of its code points; s < t compares them in order
RECURSIVE StrLess(_, _)
StrLess(s, t) ==
    IF t = <<>> THEN FALSE
    ELSE IF s = <<>> THEN TRUE
    ELSE IF Head(s) # Head(t) THEN Head(s) < Head(t)
    ELSE StrLess(Tail(s), Tail(t))
\* sep.join(strings)
RECURSIVE StrJoin(_, _)
StrJoin(sep, strings) ==
    IF strings = <<>> THEN <<>>
    ELSE IF Len(strings) = 1 THEN strings[1]
    ELSE strings[1] \o sep \o StrJoin(sep, Tail(strings))
\* Table(name); abbreviation is name[0]
Table(name) == [name |-> name]
abbreviation(table) == <<table.name[1]>>
object_table == Table(<<111, 98, 106, 101, 99, 116>>)   \* "object"
value_table == Table(<<118, 97, 108, 117, 101>>)   \* "value"
\* ValueCondition(symbol, value): value is an int or a str, str(value) its digits
ValueCondition(symbol, value) == [kind |-> "Value", symbol |-> symbol, value |-> value]
NameCondition(name) == [kind |-> "Name", name |-> name]
\* str(value) of an int or a str
StrOfValue(value) == value.text
\* __str__ of a condition that is no And
AtomStr(c) ==
    IF c.kind = "Value"
    THEN abbreviation(value_table) \o <<46, 118, 97, 108, 117, 101, 32>> \o c.symbol \o <<32>> \o StrOfValue(c.value)
    ELSE abbreviation(object_table) \o <<46, 110, 97, 109, 101, 32, 61, 32, 39>> \o c.name \o <<39>>
\* __str__; that of And joins the strings of its conditions in ascending order
RECURSIVE Str(_)
\* sorted(conditions), with __lt__ of AbstractCondition: by string
RECURSIVE Sorted(_)
Sorted(S) ==
    IF S = {} THEN <<>>
    ELSE LET least == CHOOSE c \in S : \A d \in S : ~StrLess(Str(d), Str(c))
         IN <<least>> \o Sorted(S \ {least})
\* And.__str__
AndStr(conditions) ==
    LET sorted == Sorted(conditions)
    IN StrJoin(<<32, 65, 78, 68, 32>>, [i \in DOMAIN sorted |-> Str(sorted[i])])
Str(c) == IF c.kind = "And" THEN AndStr(c.conditions) ELSE AtomStr(c)
\* __eq__ and __hash__ are those of the string
CondEq(c, d) == Str(c) = Str(d)
\* set.add: an element equal to one of the set is not added
SetAdd(S, c) == IF \E d \in S : CondEq(d, c) THEN S ELSE S \cup {c}
RECURSIVE AddAll(_, _)
AddAll(S, seq) == IF seq = <<>> THEN S ELSE AddAll(SetAdd(S, Head(seq)), Tail(seq))
\* And.__iter__
Iter(c) == Sorted(c.conditions)
\* a condition added as it is
AsItIs(condition) == <<condition>>
\* what And.__init__ adds for a condition: the conditions of an And, or itself
SubConditions(condition) ==
    IF condition.kind = "And" THEN Iter(condition) ELSE <<condition>>
\* And(*conditions)
RECURSIVE AndConditions(_, _)
AndConditions(S, conditions) ==
    IF conditions = <<>> THEN S
    ELSE AndConditions(AddAll(S, SubConditions(Head(conditions))), Tail(conditions))
And(conditions) == [kind |-> "And", conditions |-> AndConditions({}, conditions)]
\* __and__
and(self, other) == And(<<self, other>>)
\* tables
RECURSIVE Tables(_)
Tables(c) ==
    IF c.kind = "And" THEN UNION {Tables(d) : d \in c.conditions}
    ELSE IF c.kind = "Value" THEN {value_table} ELSE {object_table}

\* the expressions made of a, b and c
Expressions == {"a & b", "b & a", "a & a", "And(b, c)", "And(a, And(b, c))", "And(a, b, c)"}
Evaluate(e, o, m) ==
    CASE e = "a & b" -> and(o.a, o.b)
      [] e = "b & a" -> and(o.b, o.a)
      [] e = "a & a" -> and(o.a, o.a)
      [] e = "And(b, c)" -> And(<<o.b, o.c>>)
      [] e = "And(a, And(b, c))" -> And(<<o.a, m["And(b, c)"][1]>>)
      [] e = "And(a, b, c)" -> And(<<o.a, o.b, o.c>>)
\* one conjunction is made
MakeAnd(e) ==
    /\ conjunctions[e] = None
    /\ e = "And(a, And(b, c))" => conjunctions["And(b, c)"] # None
    /\ conjunctions' = [conjunctions EXCEPT ![e] = Some(Evaluate(e, operands, conjunctions))]
    /\ UNCHANGED operands
    /\ UNCHANGED not_cond_vars

InitCondIdle ==
    /\ operands = <<>>
    /\ conjunctions = <<>>

InitMFIdle ==
    /\ graph = OneShared
    /\ exact = [f \in FactorSet |-> "update"]
    /\ opt = FactorOptimiser(<<>>, Num(1), FALSE)
    /\ mf0 = <<>>
    /\ mf = EPMeanField(<<>>, <<>>)
    /\ trail = <<>>

InitMsgIdle ==
    /\ enforce_id_match = TRUE
    /\ msg_a = NoMessage
    /\ msg_b = NoMessage
    /\ msg_op = "-"
    /\ msg_result = Result(NoMessage)

InitEP ==
    /\ pc = "new"
    /\ init_args = NoArgs
    /\ kind \in [FactorSet -> FactorKinds]
    /\ factors = <<>>
    /\ factor_optimisers = <<>>
    /\ callback = "-"
    /\ max_steps = 0
    /\ step = 0
    /\ idx = 0
    /\ model_approx = [f \in FactorSet |-> 0]
    /\ ep_history = [f \in FactorSet |-> <<>>]
    /\ snapshots = [f \in FactorSet |-> <<>>]
    /\ attempts = <<>>
    /\ reads = <<>>
    /\ terminated_at = 0
    /\ error = NoException
    /\ returned = None
    /\ InitMsgIdle
    /\ InitHeapIdle
    /\ InitMFIdle
    /\ InitProjIdle
    /\ InitLapIdle
    /\ InitProcIdle
    /\ InitVisIdle
    /\ InitGridIdle
    /\ InitFitIdle
    /\ InitMigIdle
    /\ InitCondIdle

InitEPIdle ==
    /\ pc = "new"
    /\ init_args = NoArgs
    /\ kind = [f \in FactorSet |-> [exact |-> "update", fault |-> "none"]]
    /\ factors = <<>>
    /\ factor_optimisers = <<>>
    /\ callback = "-"
    /\ max_steps = 0
    /\ step = 0
    /\ idx = 0
    /\ model_approx = [f \in FactorSet |-> 0]
    /\ ep_history = [f \in FactorSet |-> <<>>]
    /\ snapshots = [f \in FactorSet |-> <<>>]
    /\ attempts = <<>>
    /\ reads = <<>>
    /\ terminated_at = 0
    /\ error = NoException
    /\ returned = None

InitMsg ==
    /\ enforce_id_match = TRUE
    /\ msg_a \in InputMessages
    /\ msg_b \in InputMessages
    /\ msg_op = "-"
    /\ msg_result = Result(NoMessage)
    /\ InitEPIdle
    /\ InitHeapIdle
    /\ InitMFIdle
    /\ InitProjIdle
    /\ InitLapIdle
    /\ InitProcIdle
    /\ InitVisIdle
    /\ InitGridIdle
    /\ InitFitIdle
    /\ InitMigIdle
    /\ InitCondIdle

NextMsg ==
    \/ \E op \in Operations : Operate(op)
    \/ \E flag \in BOOLEAN : SetEnforceIdMatch(flag)

SpecMsg == InitMsg /\ [][NextMsg]_vars

HeapMessage(i, mean) == Message(i, <<Num(mean), Num(MaxPrecision)>>, Num(MaxLogNorm))
InitHeap ==
    /\ heap \in {<<Object(HeapMessage(1, MaxMean), FALSE), Object(HeapMessage(i, 0), FALSE)>> :
                    i \in Ids}
    /\ last = NoOperation
    /\ InitEPIdle
    /\ InitMsgIdle
    /\ InitMFIdle
    /\ InitProjIdle
    /\ InitLapIdle
    /\ InitProcIdle
    /\ InitVisIdle
    /\ InitGridIdle
    /\ InitFitIdle
    /\ InitMigIdle
    /\ InitCondIdle

NextHeap ==
    \/ \E op \in Operators, i \in DOMAIN heap :
          \E other \in OperandsOf(op, heap) : Operator(op, i, other)
    \/ \E flag \in BOOLEAN : SetEnforceIdMatch(flag)

SpecHeap == InitHeap /\ [][NextHeap]_vars

Deltas == {Num(0), Rat(1, 2), Num(1)}
DeltaArgs == {None, Some(Num(0)), Some(Num(1))}
\* deltas: no entry, or the entry of f1
DeltasDicts == {<<>>, [f \in {"f1"} |-> Rat(1, 2)]}
\* the mean field before any factor has contributed: without information, or
\* a Normal of the bounds
StartMessages(v) ==
    {Identity(v), Normal(v, MaxMean, MaxPrecision)}
InitMF ==
    /\ graph \in Graphs
    /\ exact \in [FactorSet -> {"update", "projection"}]
    /\ opt \in {FactorOptimiser(ds, d, dyn) : ds \in DeltasDicts, d \in Deltas, dyn \in BOOLEAN}
    /\ mf0 \in {[v \in all_variables(graph) |-> ms[VariableId(v)]] :
                     ms \in {<<a, b>> : a \in StartMessages("x"), b \in {Normal("y", 0, 1)}}}
    /\ mf = from_approx_dists(graph, mf0)
    /\ trail = <<>>
    /\ InitEPIdle
    /\ InitMsgIdle
    /\ InitHeapIdle
    /\ InitProjIdle
    /\ InitLapIdle
    /\ InitProcIdle
    /\ InitVisIdle
    /\ InitGridIdle
    /\ InitFitIdle
    /\ InitMigIdle
    /\ InitCondIdle

NextMF ==
    \/ \E f \in FactorSet : ExactFit(f)
    \/ \E f \in FactorSet, delta_arg \in DeltaArgs : UpdateModelApprox(f, delta_arg)
    \/ \E f \in FactorSet : OptimiseRaises(f)
    \/ \E f \in FactorSet : StaticOptimise(f)

SpecMF == InitMF /\ [][NextMF]_vars
InitFit ==
    /\ fit_self \in {NewFactorOptimiser(ds, inplace, d, dyn) :
                        ds \in DeltasDicts, inplace \in BOOLEAN, d \in Deltas, dyn \in BOOLEAN}
    /\ fit_exact \in [FactorSet -> {"update", "projection"}]
    /\ objects \in {<<from_approx_dists(OneShared, [v \in all_variables(OneShared) |-> m])>> :
                       m \in StartMessages("x")}
    /\ held = 1
    /\ fit_calls = <<>>
    /\ InitEPIdle
    /\ InitMsgIdle
    /\ InitHeapIdle
    /\ InitMFIdle
    /\ InitProjIdle
    /\ InitLapIdle
    /\ InitProcIdle
    /\ InitVisIdle
    /\ InitGridIdle
    /\ InitMigIdle
    /\ InitCondIdle

NextFit == \E f \in FactorSet : ExactFitObject(f)

SpecFit == InitFit /\ [][NextFit]_vars

\* statements, and the steps made of them; "a:b" is one statement
Statements == {<<"a">>, <<"b">>, <<"a", ":", "b">>}
StepsGiven ==
    {Step(<<<<"a">>>>), Step(<<<<"b">>>>), Step(<<<<"a">>, <<"b">>>>), Step(<<<<"a", ":", "b">>>>)}
Migrators == UNION {[1..n -> StepsGiven] : n \in 0..MaxMigratorSteps}
InitMig ==
    /\ mig_steps \in Migrators
    /\ session \in
          {Session(FALSE, None, failing) : failing \in {{}, {<<"a">>}, {<<"b">>}}}
          \cup {Session(TRUE, row, failing) :
                    row \in {None} \cup {Some(RevisionId(steps)) : steps \in Migrators},
                    failing \in {{}, {<<"a">>}, {<<"b">>}}}
    /\ mig_pc = "idle"
    /\ pending = <<>>
    /\ executed = <<>>
    /\ mig_reads = <<>>
    /\ InitEPIdle
    /\ InitMsgIdle
    /\ InitHeapIdle
    /\ InitMFIdle
    /\ InitProjIdle
    /\ InitLapIdle
    /\ InitProcIdle
    /\ InitVisIdle
    /\ InitGridIdle
    /\ InitFitIdle
    /\ InitCondIdle

NextMig ==
    \/ StartMigrate
    \/ Execute
    \/ StoreRevision

SpecMig == InitMig /\ [][NextMig]_vars

\* the conditions a, b and c are drawn from: two names, and values of which
\* two, an int and a str, have one string
Conditions ==
    {NameCondition(<<97>>), NameCondition(<<98>>),
     ValueCondition(<<60>>, [type |-> "int", text |-> <<49>>]),
     ValueCondition(<<60>>, [type |-> "str", text |-> <<49>>]),
     ValueCondition(<<61>>, [type |-> "int", text |-> <<49>>])}
InitCond ==
    /\ operands \in [a : Conditions, b : Conditions, c : Conditions]
    /\ conjunctions = [e \in Expressions |-> None]
    /\ InitEPIdle
    /\ InitMsgIdle
    /\ InitHeapIdle
    /\ InitMFIdle
    /\ InitProjIdle
    /\ InitLapIdle
    /\ InitProcIdle
    /\ InitVisIdle
    /\ InitGridIdle
    /\ InitFitIdle
    /\ InitMigIdle

NextCond == \E e \in Expressions : MakeAnd(e)

SpecCond == InitCond /\ [][NextCond]_vars

\* the floats a sample can be: den = 0 is a non-finite one
SampleValues == {Num(0), Num(1), NaN}
LogWeightValues == {Num(0), Num(-1), MinusInf, NaN}
SeqsOfLen(S, n) == [1..n -> S]
InitProj ==
    /\ \E n \in 1..MaxSamples :
          /\ samples \in SeqsOfLen(SampleValues, n)
          /\ log_weight_list \in {None} \cup {Some(ws) : ws \in SeqsOfLen(LogWeightValues, n)}
    /\ projected = NotProjected
    /\ InitEPIdle
    /\ InitMsgIdle
    /\ InitHeapIdle
    /\ InitMFIdle
    /\ InitLapIdle
    /\ InitProcIdle
    /\ InitVisIdle
    /\ InitGridIdle
    /\ InitFitIdle
    /\ InitMigIdle
    /\ InitCondIdle

NextProj == Project

SpecProj == InitProj /\ [][NextProj]_vars
OptionalUpTo(n) == {None} \cup {Some(k) : k \in 0..n}
Objectives == {[kind |-> k, at |-> n] : k \in {"converges", "fails"}, n \in 1..(MaxIter + 1)}
InitLap ==
    /\ lap_pc = "initialized"
    /\ lap_self \in {NewLaplaceOptimiser(m, r) : m \in 0..MaxIter, r \in 0..MaxRefine}
    /\ lap_kwargs \in {Kwargs(m, r) : m \in OptionalUpTo(MaxIter), r \in OptionalUpTo(MaxRefine)}
    /\ objective \in Objectives
    /\ lap_iter = 0
    /\ lap_passes = 0
    /\ lap_status = None
    /\ lap_returned = None
    /\ lap_merged = None
    /\ next_state = PreparedState
    /\ InitEPIdle
    /\ InitMsgIdle
    /\ InitHeapIdle
    /\ InitMFIdle
    /\ InitProjIdle
    /\ InitProcIdle
    /\ InitVisIdle
    /\ InitGridIdle
    /\ InitFitIdle
    /\ InitMigIdle
    /\ InitCondIdle

NextLap ==
    \/ PrepareState
    \/ Iterate
    \/ EndQuasiNewton
    \/ RefinePass
    \/ EndRefine
    \/ ReturnApprox
    \/ MergeApprox

\* optimise is sequential code: a step that can be taken is taken
SpecLap == InitLap /\ [][NextLap]_vars /\ WF_vars(NextLap)
InitArgsGiven ==
    {None,
     Some([iterable |-> FALSE, scalar |-> "a", items |-> <<>>]),
     Some([iterable |-> TRUE, scalar |-> "", items |-> <<"a", "b">>])}
InitProc ==
    /\ proc_self \in {NewProcess(i, a, j) :
                         i \in BOOLEAN, a \in InitArgsGiven, j \in {<<>>, <<"x">>}}
    /\ has_iterable \in BOOLEAN
    /\ job_queue \in {[i \in 1..n |-> i] : n \in 0..MaxJobs}
    /\ proc = [w \in Processes |-> At("started", 0)]
    /\ initialized = [w \in Processes |-> None]
    /\ queue = [w \in Processes |-> <<>>]
    /\ total = Len(job_queue)
    /\ rj = RunJobsAt("check", 0)
    /\ yielded = <<>>
    /\ InitEPIdle
    /\ InitMsgIdle
    /\ InitHeapIdle
    /\ InitMFIdle
    /\ InitProjIdle
    /\ InitLapIdle
    /\ InitVisIdle
    /\ InitGridIdle
    /\ InitFitIdle
    /\ InitMigIdle
    /\ InitCondIdle

\* a step of one worker
Worker(w) ==
    \/ RunInitializer(w)
    \/ CheckEmpty(w)
    \/ GetJob(w)
    \/ PutResult(w)
\* a step of run_jobs
RunJobs ==
    \/ CheckCount
    \/ YieldResult
    \/ NextProcess
    \/ Join

NextProc ==
    \/ \E w \in Processes : Worker(w)
    \/ RunJobs

SpecProc == InitProc /\ [][NextProc]_vars
\* fair scheduling: run_jobs and every worker that can take a step takes one
SpecProcFair ==
    /\ InitProc
    /\ [][NextProc]_vars
    /\ WF_vars(RunJobs)
    /\ \A w \in Processes : WF_vars(Worker(w))
\* PYAUTOFIT_TEST_MODE: unset, or set to a string
EnvValues == {None, Some("1"), Some("0"), Some("true")}
PathsClasses == {"DatabasePaths", "NullPaths", "DirectoryPaths"}
InitVis ==
    /\ vis_args \in {VisArgs(e, p, f, d, c) :
                        e \in EnvValues, p \in PathsClasses, f \in BOOLEAN, d \in BOOLEAN,
                        c \in BOOLEAN}
    /\ vis_result = None
    /\ InitEPIdle
    /\ InitMsgIdle
    /\ InitHeapIdle
    /\ InitMFIdle
    /\ InitProjIdle
    /\ InitLapIdle
    /\ InitProcIdle
    /\ InitGridIdle
    /\ InitFitIdle
    /\ InitMigIdle
    /\ InitCondIdle

NextVis == ShouldVisualize

SpecVis == InitVis /\ [][NextVis]_vars
\* the lower limits of a grid of side^dimensions cells, the first dimension
\* varying slowest
GridLowerLimits(dimensions, side) ==
    [c \in 1..Power(side, dimensions) |->
        [j \in 1..dimensions |->
            Rat(((c - 1) \div Power(side, dimensions - j)) % side, side)]]
GridPriors == {UniformPrior(0, 1), UniformPrior(0, 2), UniformPrior(1, 3)}
InitGrid ==
    /\ grid_result \in
          {Some(GridSearchResult(GridLowerLimits(t[1], t[2]), t[3], t[4])) :
              t \in {u \in (1..MaxDimensions) \X (1..MaxSide) \X
                            (UNION {[1..n -> GridPriors] : n \in 1..MaxDimensions}) \X
                            (1..MaxSide) :
                        /\ Len(u[3]) = u[1]
                        /\ u[4] \in IntRoots(Power(u[2], u[1]), u[1])}}
    /\ grid_read = NothingRead
    /\ InitEPIdle
    /\ InitMsgIdle
    /\ InitHeapIdle
    /\ InitMFIdle
    /\ InitProjIdle
    /\ InitLapIdle
    /\ InitProcIdle
    /\ InitVisIdle
    /\ InitFitIdle
    /\ InitMigIdle
    /\ InitCondIdle

NextGrid == \E name \in Properties : ReadProperty(name)

SpecGrid == InitGrid /\ [][NextGrid]_vars






NextEP ==
    \/ \E o \in FactorOrders, d \in DefaultOptimisers, g \in GivenOptimisers,
          h \in HistoryArgs : Construct(o, d, g, h)
    \/ \E n \in 0..MaxSteps : Run(n)
    \/ OptimiseFactor
    \/ SweepEnd
    \/ Return

SpecEP == InitEP /\ [][NextEP]_vars

\* -------------------------------------------------------------------------
\* What the claims speak of
Started == pc \in {"running", "returned", "raised"}
NItems == Len(factor_optimisers)
OptimiserOf(f) == DictGet(factor_optimisers, f, Optimiser("-", "-"))
AttemptsOf(f) == Cardinality({i \in DOMAIN attempts : attempts[i] = f})
LastAttempted == attempts[Len(attempts)]
Repeat(status, n) == [i \in 1..n |-> status]
\* the errors the EP optimiser is to turn into a failed Status
RecoverableErrors == {"ValueError", "ZeroDivisionError", "RuntimeError"}
HasFault(f, x) == kind[f].fault = x /\ kind[f].exact = "projection"
Succeeds(f) == HasFault(f, "none") \/ kind[f].exact = "update"
    \/ (kind[f].exact = "none" /\ OptimiserOf(f).cls = LaplaceOptimiser)
Unsupported(f) == kind[f].exact = "none" /\ OptimiserOf(f).cls = ExactFactorFit

\* C1: a ValueError, ArithmeticError or RuntimeError raised by a factor's optimise
\* does not abort run: every attempt on such a factor is in that factor's history
\* as Status(False, <error text>), run is never left by such an error, and with one
\* factor that always raises RuntimeError and the others succeeding run(max_steps)
\* makes all its sweeps, with max_steps failed entries for that factor and
\* max_steps successful entries for every other one.
C1_ErrorBecomesFailedStatus ==
    Started =>
        /\ \A f \in DictKeys(factor_optimisers) : \A e \in RecoverableErrors :
              HasFault(f, e) =>
                  /\ ep_history[f] = Repeat(ErrorStatus(f, e), AttemptsOf(f))
                  /\ ~(pc = "raised" /\ LastAttempted = f)
        /\ (/\ pc = "returned"
            /\ callback = "never"
            /\ \E f \in DictKeys(factor_optimisers) :
                  /\ HasFault(f, "RuntimeError")
                  /\ \A g \in DictKeys(factor_optimisers) \ {f} : Succeeds(g))
           => /\ Len(attempts) = max_steps * NItems
              /\ \A f \in DictKeys(factor_optimisers) :
                    ep_history[f] =
                        IF HasFault(f, "RuntimeError")
                        THEN Repeat(ErrorStatus(f, "RuntimeError"), max_steps)
                        ELSE Repeat(DefaultStatus, max_steps)

C1_Witness ==
    /\ pc = "returned"
    /\ callback = "never"
    /\ max_steps = 5
    /\ NItems = 2
    /\ \E f \in DictKeys(factor_optimisers) :
          /\ HasFault(f, "RuntimeError")
          /\ Len(ep_history[f]) = 5
          /\ \A g \in DictKeys(factor_optimisers) \ {f} : Succeeds(g)

\* C2: once the callback has returned True, no further factor is optimised, in
\* the current sweep or a later one, and run has returned the current mean field;
\* a callback first returning True at the end of the 3rd sweep gives 3 sweeps.
C2_CallbackTerminates ==
    terminated_at # 0 =>
        /\ pc = "returned"
        /\ Len(attempts) = terminated_at
        /\ returned = Some(model_approx)
        /\ error = NoException

C2_Witness ==
    /\ pc = "returned"
    /\ NItems = 2
    /\ max_steps > 3
    /\ terminated_at = 3 * NItems
    /\ Len(attempts) = 3 * NItems
    /\ \A f \in DictKeys(factor_optimisers) : ep_history[f] = Repeat(DefaultStatus, 3)

\* C3: with a callback that never terminates, a run that returns has made exactly
\* max_steps sweeps and returns the mean field; a run never makes more than
\* max_steps * (number of factors) optimise calls, whatever fails, and a run that
\* has not ended can always take its next step.
C3_ExactlyMaxSteps ==
    /\ (pc = "returned" /\ callback = "never") =>
          /\ step = max_steps
          /\ Len(attempts) = max_steps * NItems
          /\ \A f \in DictKeys(factor_optimisers) : AttemptsOf(f) = max_steps
          /\ returned = Some(model_approx)
    /\ Started => Len(attempts) <= max_steps * NItems
    /\ pc = "running" => ENABLED (OptimiseFactor \/ SweepEnd \/ Return)

C3_Witness ==
    /\ pc = "returned"
    /\ callback = "never"
    /\ max_steps = MaxSteps
    /\ NItems = 2
    /\ \A f \in DictKeys(factor_optimisers) :
          Len(ep_history[f]) = max_steps /\ ~ep_history[f][1].success

\* C4: in every sweep the factors of the optimiser's factor list are optimised
\* one at a time in the order of that list, each once per sweep, and no other
\* factor is optimised, wherever the optimisers come from.
FactorListOrder == DictKeySeq(DictComprehension(factors, <<>>, None))
C4_SweepFollowsFactorList ==
    Started =>
        \A i \in DOMAIN attempts :
            attempts[i] = FactorListOrder[((i - 1) % Len(FactorListOrder)) + 1]

\* C5: without a default optimiser __init__ raises ValueError exactly when a
\* factor of the factor list has no entry in factor_optimisers; it never fails
\* when a default is given; after a successful construction every factor of the
\* list has an optimiser, its own entry or else the default, so run always finds
\* an optimiser for the factor it is at.
GivenDict == OrEmpty(init_args.factor_optimisers)
C5_MissingOptimiserIsFatalAtInit ==
    /\ pc \in {"constructed", "construct_failed"} =>
          /\ (pc = "construct_failed") <=>
                 /\ init_args.default_optimiser = None
                 /\ \E f \in Range(factors) : f \notin DictKeys(GivenDict)
          /\ pc = "construct_failed" => error = "ValueError"
    /\ pc = "constructed" =>
          \A f \in Range(factors) :
              /\ f \in DictKeys(factor_optimisers)
              /\ OptimiserOf(f) =
                     IF f \in DictKeys(GivenDict)
                     THEN DictGet(GivenDict, f, None)
                     ELSE ValueOf(init_args.default_optimiser)
    /\ Started =>
          /\ \A f \in Range(factors) :
                f \in DictKeys(factor_optimisers) /\ OptimiserOf(f).cls \in OptimiserClasses
          /\ \A i \in DOMAIN factor_optimisers :
                factor_optimisers[i][2].cls \in OptimiserClasses

C5_Witness ==
    /\ pc = "construct_failed"
    /\ error = "ValueError"
    /\ init_args.default_optimiser = None
    /\ init_args.factor_optimisers # None
    /\ GivenDict # <<>>
    /\ \E f \in Range(factors) : f \notin DictKeys(GivenDict)

C7_NonFiniteBecomesFailedStatus ==
    Started =>
        \A f \in DictKeys(factor_optimisers) :
            HasFault(f, "non_finite") =>
                /\ ~(pc = "raised" /\ LastAttempted = f)
                /\ Len(ep_history[f]) = AttemptsOf(f)
                /\ \A i \in DOMAIN ep_history[f] : ~ep_history[f][i].success

\* C8: an identity-mismatch error raised while a factor is optimised is not
\* caught by run: run ends at once with that error, no Status of that attempt is
\* in the history, and no further factor is optimised.
C8_IdentityMismatchIsFatal ==
    Started =>
        \A i \in DOMAIN attempts :
            HasFault(attempts[i], "id_mismatch") =>
                /\ i = Len(attempts)
                /\ pc = "raised"
                /\ error = "AssertionError"
                /\ ep_history[attempts[i]] = <<>>
                /\ returned = None
                /\ terminated_at = 0

C8_Witness ==
    /\ pc = "raised"
    /\ error = "AssertionError"
    /\ Len(attempts) = 2
    /\ HasFault(attempts[2], "id_mismatch")
    /\ Len(ep_history[attempts[1]]) = 1

\* C9: with enforce_id_match True, a * b and a / b between Messages of different
\* ids fail with the identity-mismatch error and give no Message; between
\* Messages of the same id they succeed and the result carries that id.
C9_IdGuardOnMulAndDiv ==
    (msg_op \in {"__mul__", "__truediv__"} /\ enforce_id_match) =>
        IF msg_a.id # msg_b.id
        THEN msg_result = Raised("AssertionError")
        ELSE /\ msg_result.raised = NoException
             /\ msg_result.value # NoMessage
             /\ msg_result.value.id = msg_a.id

C9_Witness ==
    /\ enforce_id_match
    /\ msg_op = "__mul__"
    /\ msg_a.id # msg_b.id
    /\ msg_result.raised = "AssertionError"

\* C10: sum_natural_parameters with a Message of another id fails and returns no
\* product; with Messages of the receiver's id it returns a Message of that id
\* whose natural parameters are the elementwise sum of the operands'.
C10_SumRequiresSameId ==
    (msg_op = "sum_natural_parameters" /\ enforce_id_match) =>
        IF msg_a.id # msg_b.id
        THEN msg_result.raised # NoException /\ msg_result.value = NoMessage
        ELSE /\ msg_result.raised = NoException
             /\ msg_result.value.id = msg_a.id
             /\ natural_parameters(msg_result.value) =
                    <<RAdd(natural_parameters(msg_a)[1], natural_parameters(msg_b)[1]),
                      RAdd(natural_parameters(msg_a)[2], natural_parameters(msg_b)[2])>>

\* C11: each of * / ** with a Message or a real as the other operand, applied to
\* any objects alive (results of earlier operators among them), leaves the
\* parameters, log_norm and id of every object alive as they were, and its result,
\* when it returns one, is an object that did not exist before.
C11_OperatorsLeaveOperands ==
    [][/\ \A a \in DOMAIN heap : a \in DOMAIN heap' /\ heap'[a].msg = heap[a].msg
       /\ heap' # heap =>
             /\ last'.raised = NoException
             /\ last'.result \notin DOMAIN heap
             /\ last'.result \in DOMAIN heap']_vars

C11_Witness ==
    /\ Len(heap) = 4
    /\ last.raised = NoException
    /\ last.op = "__truediv__"
    /\ last.self = 3
    /\ last.other = MessageAt(1)
    /\ heap[3].cached /\ heap[1].cached /\ ~heap[2].cached
    /\ last.result = 4

\* -------------------------------------------------------------------------
LastCall == trail[Len(trail)]
ValidDist(dist) == \A v \in DOMAIN dist : is_valid(dist[v])
\* the call is given its delta, and neither deltas nor dynamic_delta overrides it
MergesWith(call, delta) ==
    /\ call.op = "update_model_approx"
    /\ call.delta_arg = Some(delta)
    /\ call.factor \notin DOMAIN opt.deltas
    /\ ~opt.dynamic_delta
    /\ ValidDist(call.before)
    /\ ValidDist(call.proposal)

\* C12: a merge of a factor's proposal with delta = 0 leaves the Message of each
\* of the factor's variables as it was, and a merge with delta = 1 leaves each of
\* them with the natural parameters of the proposal.
C12_DeltaBoundaries ==
    trail # <<>> =>
        \A v \in graph[LastCall.factor] :
            /\ MergesWith(LastCall, Num(0)) => mf.mean_field[v] = LastCall.before[v]
            /\ MergesWith(LastCall, Num(1)) =>
                  natural_parameters(mf.mean_field[v]) = natural_parameters(LastCall.proposal[v])

\* one sweep of exact fits: every factor once, in some order, and nothing else
OneExactSweep ==
    /\ Len(trail) = Cardinality(FactorSet)
    /\ \A i \in DOMAIN trail : trail[i].op = "exact_fit"
    /\ \A f \in FactorSet : \E i \in DOMAIN trail : trail[i].factor = f
FullUpdates == opt.delta = Num(1) /\ opt.deltas = <<>>
\* the likelihood factor and the prior factor over the one variable x, the mean
\* field holding nothing but what the factors will contribute
GaussianScenario == graph = OneShared /\ mf0["x"] = Identity("x")

C14_DampedMeanBetween ==
    (GaussianScenario /\ opt.delta = Rat(1, 2) /\ opt.deltas = <<>> /\ OneExactSweep) =>
        /\ RLess(Num(0), mf.mean_field["x"].parameters[1])
        /\ RLess(mf.mean_field["x"].parameters[1], Num(1))

\* the call merges through update_model_approx with the dynamic delta
MergesDynamically(call) ==
    /\ \/ call.op = "update_model_approx"
       \/ call.op = "exact_fit" /\ exact[call.factor] = "projection"
    /\ opt.dynamic_delta
    /\ call.factor \notin DOMAIN opt.deltas
MinCount == min({variable_message_count(graph)[v] : v \in all_variables(graph)})
DeltaIsScaled(call, v) ==
    call.delta[v] = RDiv(RMul(opt.delta, Num(MinCount)), Num(variable_message_count(graph)[v]))
LeastShared(v) == variable_message_count(graph)[v] = MinCount

\* C15 (as claimed): with dynamic_delta on and no entry in deltas for the factor,
\* the delta of variable v is the optimiser's delta times (smallest message count
\* / message count of v): the optimiser's delta for a least-shared variable, never
\* more than it, and strictly less than it for every other variable.
C15_DynamicDeltaShrinks ==
    (trail # <<>> /\ MergesDynamically(LastCall)) =>
        \A v \in all_variables(graph) :
            /\ DeltaIsScaled(LastCall, v)
            /\ LeastShared(v) => LastCall.delta[v] = opt.delta
            /\ ~RLess(opt.delta, LastCall.delta[v])
            /\ ~LeastShared(v) => RLess(LastCall.delta[v], opt.delta)

\* C15 (amended): the same, the delta of a variable that is not least-shared being
\* strictly less than the optimiser's delta when that delta is positive, and 0
\* like every other when it is 0.
C15_DynamicDeltaShrinksWhenPositive ==
    (trail # <<>> /\ MergesDynamically(LastCall)) =>
        \A v \in all_variables(graph) :
            /\ DeltaIsScaled(LastCall, v)
            /\ LeastShared(v) => LastCall.delta[v] = opt.delta
            /\ ~RLess(opt.delta, LastCall.delta[v])
            /\ (~LeastShared(v) /\ RLess(Num(0), opt.delta)) => RLess(LastCall.delta[v], opt.delta)
            /\ opt.delta = Num(0) => LastCall.delta[v] = Num(0)

C15_Witness ==
    /\ trail # <<>>
    /\ MergesDynamically(LastCall)
    /\ graph = OneOwn
    /\ LastCall.factor = "f1"
    /\ opt.delta = Rat(1, 2)
    /\ LastCall.delta = [v \in Variables |-> IF v = "x" THEN Rat(1, 4) ELSE Rat(1, 2)]
    /\ is_valid(LastCall.before["x"])
    /\ mf.mean_field["x"] = Interpolate(LastCall.before["x"], LastCall.proposal["x"], Rat(1, 4))

\* no factor has contributed an update: every call so far raised
NoContribution == \A i \in DOMAIN trail : trail[i].op = "raised"

C17_OneMessagePerVariable ==
    /\ DOMAIN mf.mean_field = all_variables(graph)
    /\ \A v \in DOMAIN mf.mean_field : mf.mean_field[v].id = VariableId(v)

C17_Witness ==
    /\ graph = OneOwn
    /\ Len(trail) = 2
    /\ trail[1].op = "raised"
    /\ trail[2].op = "update_model_approx" /\ trail[2].factor = "f2"
    /\ mf.mean_field["x"] # mf0["x"]
    /\ mf.mean_field["y"] = mf0["y"]
    /\ variable_message_count(graph)["x"] = 2

\* -------------------------------------------------------------------------
IsPrefix(s, t) == Len(s) <= Len(t) /\ SubSeq(t, 1, Len(s)) = s
\* the step is an attempt on f that did not leave run by an exception
Attempted(f) ==
    attempts' # attempts /\ attempts'[Len(attempts')] = f /\ pc' # "raised"
\* the optimise call for f raises, or returns a Status that is not a success
AttemptFails(f) ==
    LET out == Optimise(OptimiserOf(f), kind[f])
    IN out.raises # NoException \/ ~out.status.success

\* C18: a factor's history only grows: a step keeps every record and every
\* snapshot the history held; a successful attempt appends its status and one
\* snapshot, the mean field it returned; a failed attempt appends a failed status
\* and leaves the snapshots, and so the latest successful one, as they were; an
\* attempt on another factor changes nothing of this factor's history.
C18_HistoryOnlyGrows ==
    [][\A f \in FactorSet :
          /\ IsPrefix(ep_history[f], ep_history'[f])
          /\ IsPrefix(snapshots[f], snapshots'[f])
          /\ (Attempted(f) /\ ~AttemptFails(f)) =>
                /\ ep_history'[f] = Append(ep_history[f], DefaultStatus)
                /\ snapshots'[f] = Append(snapshots[f], model_approx')
          /\ (Attempted(f) /\ AttemptFails(f)) =>
                /\ Len(ep_history'[f]) = Len(ep_history[f]) + 1
                /\ ~ep_history'[f][Len(ep_history'[f])].success
                /\ snapshots'[f] = snapshots[f]
                /\ latest_successful(snapshots', f) = latest_successful(snapshots, f)
          /\ ~Attempted(f) =>
                /\ ep_history'[f] = ep_history[f]
                /\ snapshots'[f] = snapshots[f]]_vars

C18_Witness ==
    /\ pc = "returned"
    /\ \E f, g \in DictKeys(factor_optimisers) :
          /\ Len(snapshots[f]) = 3
          /\ snapshots[f][1] # snapshots[f][2]
          /\ latest_successful(snapshots, f) = Some(model_approx)
          /\ HasFault(g, "failed_status")
          /\ Len(ep_history[g]) = 3
          /\ latest_successful(snapshots, g) = None
          /\ model_approx[g] = 3

\* -------------------------------------------------------------------------
\* msg_b is msg_a as far as a division can tell
SameMessage(a, b) ==
    /\ a.id = b.id
    /\ natural_parameters(a) = natural_parameters(b)
    /\ a.log_norm = b.log_norm
Divisions == {"__truediv__", "sub_natural_parameters"}

\* C19: dividing a Message by itself, or by a Message of the same id, natural
\* parameters and log_norm, gives a Message whose natural parameters are all
\* zero and whose log_norm is 0.
C19_SelfDivisionIsIdentity ==
    (msg_op \in Divisions /\ SameMessage(msg_a, msg_b)) =>
        /\ msg_result.raised = NoException
        /\ natural_parameters(msg_result.value) = <<Num(0), Num(0)>>
        /\ msg_result.value.log_norm = Num(0)

\* -------------------------------------------------------------------------
\* the Messages a state holds: the operands and, once an operation returned
\* one, its result
MessagesHeld ==
    {msg_a, msg_b} \cup
        (IF msg_result.raised = NoException /\ msg_result.value # NoMessage
         THEN {msg_result.value} ELSE {})
\* m rebuilt from its own natural parameters
RoundTrip(m) == from_natural_parameters(natural_parameters(m), m.log_norm, m.id)

NonFiniteStatistic ==
    \E k \in 1..2 : ~Finite(Statistics(samples, log_weight_list).suff_stats[k])

\* C21: when a sufficient statistic project computed is not finite, project
\* raises and returns no Message; a Message it returns was built from finite
\* sufficient statistics.
C21_ProjectFailsHard ==
    projected # NotProjected =>
        /\ NonFiniteStatistic =>
              projected.raised = "AssertionError" /\ projected.value = NoMessage
        /\ projected.raised = NoException => ~NonFiniteStatistic

\* a non-finite sample of weight zero next to a finite sample: the statistic
\* is 0 * nan, and project raised
C21_Witness ==
    /\ Len(samples) = 2
    /\ samples[1] = Num(1) /\ samples[2] = NaN
    /\ log_weight_list = Some(<<Num(0), MinusInf>>)
    /\ projected = Raised("AssertionError")

\* -------------------------------------------------------------------------
LapDone == lap_pc \in {"refined", "returned", "done"}
LapBounded ==
    /\ lap_iter <= Kws(lap_self, lap_kwargs).max_iter
    /\ lap_passes > 0 => lap_status # None /\ lap_status[1].flag # "SUCCESS"
    /\ LapDone =>
          lap_passes = IF lap_status[1].flag = "SUCCESS" THEN 0
                       ELSE NRefineOfCall(lap_self, KwargsGet(lap_kwargs))

\* C22: one Laplace optimisation terminates: the quasi-Newton phase makes at
\* most max_iter iterations, refine runs only when that phase did not end with
\* SUCCESS and then makes exactly n_refine passes, n_refine being the value given
\* to the call when one is given and the optimiser's otherwise, and then the
\* result is produced.
C22_LaplaceTerminates == [](LapBounded) /\ <>(lap_pc = "done")

\* -------------------------------------------------------------------------
\* C23: a failure of the quasi-Newton phase is carried by the Status: the
\* Status optimise_approx returns is the one that phase produced, with its
\* success, its flag and its messages, whether refine ran or not, and it is
\* the Status optimise gives to update_model_approx.
C23_StatusHandedOn ==
    /\ lap_status # None /\ lap_status[1].flag # "SUCCESS" =>
          ~lap_status[1].success /\ lap_status[1].messages # <<>>
    /\ lap_returned # None => lap_returned = lap_status
    /\ lap_merged # None => lap_merged = lap_status

\* a failed line search, refined twice, handed to the merge as a failure
C23_Witness ==
    /\ lap_pc = "done"
    /\ lap_passes = 2
    /\ lap_status[1].flag = "FAILED"
    /\ lap_merged = Some(FlagStatus("FAILED", <<"line search failed">>))

\* -------------------------------------------------------------------------
\* every call so far was an optimise that proposed the model distribution
AllStatic == \A i \in DOMAIN trail : trail[i].op = "static"

InitialApprox == [f \in FactorSet |-> 0]
\* the attempts among the first n that returned
ReturnedUpTo(n) == {k \in 1..n : reads[k].returned # None}
\* the mean field returned by the latest of the first n attempts that returned
LatestReturned(n) ==
    IF ReturnedUpTo(n) = {} THEN InitialApprox
    ELSE reads[SetMax(ReturnedUpTo(n))].returned[1]

\* C25: every attempt is given the mean field returned by the latest earlier
\* attempt that returned without raising, the initial one when there is none;
\* an attempt that raised leaves the mean field run holds as it was.
C25_AttemptReadsLatestMeanField ==
    /\ \A i \in DOMAIN reads : reads[i].read = LatestReturned(i - 1)
    /\ model_approx = LatestReturned(Len(reads))

\* within one sweep: a merge, then an attempt that raised, then an attempt
\* that is given the merge of the first
C25_Witness ==
    /\ pc = "returned"
    /\ Len(factor_optimisers) = 2
    /\ \E i \in DOMAIN reads :
          /\ i + 1 \in DOMAIN reads
          /\ i + 2 \in DOMAIN reads
          /\ reads[i].returned # None
          /\ reads[i].returned # Some(reads[i].read)
          /\ reads[i + 1].returned = None
          /\ reads[i + 1].read = reads[i].returned[1]
          /\ reads[i + 2].read = reads[i].returned[1]
          /\ reads[i + 2].read # InitialApprox

\* -------------------------------------------------------------------------
\* C26: a started Process, once the initializer (if any, with or without
\* initargs) has run, enters the job loop; it puts the result of every job it
\* took, performed with job_args, on its own queue; and it stops only when the
\* job queue is empty.
C26_WorkerDrainsQueue ==
    [][\A w \in Processes :
          /\ (proc[w].pc = "started" /\ proc'[w].pc # "started") =>
                /\ proc'[w].pc = "loop"
                /\ proc_self.initializer => initialized'[w] # None
          /\ (proc[w].pc = "perform" /\ proc'[w].pc # "perform") =>
                queue'[w] = Append(queue[w], PerformJob(proc[w].job, proc_self.job_args))
          /\ (proc[w].pc # "stopped" /\ proc'[w].pc = "stopped") => job_queue = <<>>]_vars

\* -------------------------------------------------------------------------
\* C27: should_visualize returns False whenever PYAUTOFIT_TEST_MODE is "1",
\* whatever the other inputs; otherwise False for a DatabasePaths or NullPaths;
\* otherwise True when force_visualize_overwrite is set or during_analysis is
\* False; otherwise True exactly when the model-fit is not complete.
C27_ShouldVisualizeTable ==
    vis_result # None =>
        LET a == vis_args
            r == vis_result[1]
            on == a.env = Some("1")
            quiet == a.paths # "DirectoryPaths"
        IN /\ on => r = FALSE
           /\ (~on /\ quiet) => r = FALSE
           /\ (~on /\ ~quiet /\ (a.force \/ ~a.during_analysis)) => r = TRUE
           /\ (~on /\ ~quiet /\ ~a.force /\ a.during_analysis) => (r <=> ~a.is_complete)

\* test mode wins over a forced, final visualization of an unfinished fit
C27_Witness ==
    /\ vis_args = VisArgs(Some("1"), "DirectoryPaths", TRUE, FALSE, FALSE)
    /\ vis_result = Some(FALSE)

\* -------------------------------------------------------------------------
\* what the property read last should be, cell by cell and dimension by dimension
CellValue(self, name, i, j) ==
    LET lower == self.lower_limits_lists[i][j]
        upper == RAdd(lower, RDiv(Num(1), Num(self.side_length)))
        centre == RDiv(RAdd(lower, upper), Num(2))
        prior == self.grid_priors[j]
    IN CASE name = "upper_limits_lists" -> upper
         [] name = "centres_lists" -> centre
         [] name = "physical_lower_limits_lists" -> value_for(prior, lower)
         [] name = "physical_centres_lists" -> value_for(prior, centre)
         [] name = "physical_upper_limits_lists" -> value_for(prior, upper)

\* C28: in every cell and every dimension the upper limit is the lower limit
\* plus step_size = 1 / side_length, the centre is the midpoint of the two, and
\* the physical lower, centre and upper values are the grid priors' value_for of
\* these unit values, cell by cell in the order of lower_limits_lists.
C28_GridLimits ==
    grid_read # NothingRead =>
        LET self == grid_result[1]
        IN /\ self.step_size = RDiv(Num(1), Num(self.side_length))
           /\ Len(grid_read.value) = Len(self.lower_limits_lists)
           /\ \A i \in DOMAIN self.lower_limits_lists :
                 /\ Len(grid_read.value[i]) = self.no_dimensions
                 /\ \A j \in 1..self.no_dimensions :
                       grid_read.value[i][j] = CellValue(self, grid_read.name, i, j)

\* a grid of two dimensions and side two, its second prior stretching the unit
\* interval: the physical centres of the last cell
C28_Witness ==
    /\ grid_result # None
    /\ grid_result[1].no_dimensions = 2
    /\ grid_result[1].side_length = 2
    /\ grid_result[1].grid_priors = <<UniformPrior(0, 1), UniformPrior(1, 3)>>
    /\ grid_read.name = "physical_centres_lists"
    /\ grid_read.value[4] = <<Rat(3, 4), Rat(5, 2)>>

\* -------------------------------------------------------------------------
\* the delta the merge should be made with: the factor's entry in deltas, else
\* the dynamic delta, else the argument if one is passed, else the optimiser's
ChosenDelta(self, g, f, delta_arg) ==
    IF f \in DOMAIN self.deltas THEN Everywhere(g, self.deltas[f])
    ELSE IF self.dynamic_delta THEN DynamicDelta(self, variable_message_count(g))
    ELSE IF delta_arg # None THEN Everywhere(g, delta_arg[1])
    ELSE Everywhere(g, self.delta)

\* C29: update_model_approx merges with the per-factor value when the factor
\* has an entry in deltas; otherwise with the dynamic per-variable delta when
\* dynamic_delta is on; otherwise with the delta argument whenever one is
\* passed, the value 0 included; and with the optimiser's own delta only when
\* no delta argument is passed.
C29_DeltaSelection ==
    (trail # <<>> /\ LastCall.op = "update_model_approx") =>
        LastCall.delta = ChosenDelta(opt, graph, LastCall.factor, LastCall.delta_arg)

\* C30: the damping of an exact-fit optimiser governs every merge of exact_fit,
\* for a factor with an exact update as for one with an exact projection only:
\* where the delta of a variable is below 1 and the full update differs from
\* the Message held, the mean field does not jump to the full update.
C30_ExactFitIsDamped ==
    (trail # <<>> /\ LastCall.op = "exact_fit") =>
        \A v \in graph[LastCall.factor] :
            (/\ RLess(LastCall.delta[v], Num(1))
             /\ is_valid(LastCall.proposal[v])
             /\ LastCall.proposal[v] # LastCall.before[v]) =>
                mf.mean_field[v] # LastCall.proposal[v]

\* -------------------------------------------------------------------------
\* C31: with inplace = False exact_fit leaves the mean field it is given as it
\* was: the caller's object is the same before and after the call, the object
\* returned is another one and carries the update. With inplace = True the
\* object returned after an exact update is the given object itself, updated.
\* -------------------------------------------------------------------------
ExpectedFit(c) ==
    exact_fit_merge(enforce_id_match, fit_self, OneShared, c.how, c.factor, c.before)
C31_WitnessCopy ==
    /\ fit_calls # <<>>
    /\ ~fit_self.inplace
    /\ fit_calls[1].how = "update"
    /\ fit_calls[1].result # fit_calls[1].before

\* -------------------------------------------------------------------------
\* C32: when the quasi-Newton phase of optimise_approx ends without the
\* SUCCESS flag, refinement starts from the state that phase ended in: the
\* state the projection is made from carries every iteration made before the
\* refinement, and the refinement's updates on top of them.
\* -------------------------------------------------------------------------
Unsuccessful == lap_status # None /\ lap_status[1].flag # "SUCCESS"
C32_RefineStartsFromReachedState ==
    (LapDone /\ Unsuccessful) =>
        next_state = OptimisationState(lap_iter, lap_passes)
\* what the code does: the iterations are dropped, the updates are kept
RefinedFromPreparedState ==
    (LapDone /\ Unsuccessful) => next_state = OptimisationState(0, lap_passes)
\* a successful phase hands on the state it reached
SuccessfulStateKept ==
    (LapDone /\ lap_status # None /\ lap_status[1].flag = "SUCCESS") =>
        next_state = OptimisationState(lap_iter, 0)

\* -------------------------------------------------------------------------
\* C33: in run_jobs, for every interleaving of the workers, each submitted job
\* is taken from the job queue by exactly one worker and performed exactly
\* once, each result is yielded exactly once, and the number of results
\* yielded never exceeds, and on return equals, the number of jobs submitted.
\* -------------------------------------------------------------------------
\* the number of items of a sequence that satisfy a test
RECURSIVE CountIn(_, _)
CountIn(q, j) ==
    IF q = <<>> THEN 0
    ELSE (IF Head(q) = j THEN 1 ELSE 0) + CountIn(Tail(q), j)
RECURSIVE SumOver(_, _, _)
SumOver(W, q, j) ==
    IF W = {} THEN 0
    ELSE LET w == CHOOSE x \in W : TRUE
         IN CountIn(q[w], j) + SumOver(W \ {w}, q, j)
\* where job j is: waiting, held by a worker, performed (its result on a
\* worker's queue), yielded
Waiting(j) == CountIn(job_queue, j)
Held(j) == Cardinality({w \in Processes : proc[w].pc = "perform" /\ proc[w].job = j})
Performed(j) == SumOver(Processes, queue, PerformJob(j, proc_self.job_args))
Yielded(j) == CountIn(yielded, PerformJob(j, proc_self.job_args))
C33_EachJobOnce ==
    /\ \A j \in 1..total :
          /\ Waiting(j) + Held(j) + Performed(j) + Yielded(j) = 1
          /\ Yielded(j) <= 1
    /\ Len(yielded) <= total
    /\ rj.pc = "returned" => Len(yielded) = total
C33_Witness ==
    /\ rj.pc = "returned"
    /\ total = MaxJobs
    /\ Len(yielded) = MaxJobs
    /\ \A w \in Processes : queue[w] = <<>>

\* -------------------------------------------------------------------------
\* C34: in run_jobs, under fair scheduling, every result is eventually
\* yielded, run_jobs eventually returns, and every worker eventually
\* terminates: no worker stays blocked on the job queue after another worker
\* has taken the last job, and run_jobs never waits forever for a result that
\* no worker will produce.
\* -------------------------------------------------------------------------
Terminated(w) == proc[w].pc \in {"stopped", "raised"}
\* blocked in job_queue.get() on an empty queue
Blocked(w) == proc[w].pc = "get" /\ job_queue = <<>>
C34_RunJobsCompletes ==
    /\ <>(rj.pc = "returned" /\ Len(yielded) = total)
    /\ <>(\A w \in Processes : Terminated(w))
\* the part that holds: run_jobs returns whenever the workers enter their loop
WorkersLoop == ~proc_self.initializer \/ (proc_self.initargs # None /\ has_iterable)
ReturnsWhenWorkersLoop == WorkersLoop => <>(rj.pc = "returned" /\ Len(yielded) = total)
\* a worker left blocked for good: another worker took the last job between
\* this worker's job_queue.empty() and its job_queue.get()
WorkerLeftBlocked ==
    /\ rj.pc = "returned"
    /\ \E w \in Processes :
          /\ Blocked(w)
          /\ \A v \in Processes \ {w} : Terminated(v)
\* run_jobs left waiting for good: every worker has ended, no result is on
\* its way, and count < total
RunJobsLeftWaiting ==
    /\ rj.pc \in {"check", "sweep"}
    /\ Len(yielded) < total
    /\ \A w \in Processes : Terminated(w) /\ queue[w] = <<>>

\* -------------------------------------------------------------------------
\* C35: after migrate returns, the revision id stored in the session is the id
\* of the migrator's latest revision, and a second migrate with the same steps
\* on that session executes no step statement.
\* -------------------------------------------------------------------------
Migrated == mig_pc = "idle" /\ mig_reads # <<>>
C35_MigrateIsIdempotent ==
    /\ Migrated => (session.table /\ session.row = Some(RevisionId(mig_steps)))
    /\ \A i \in DOMAIN executed : i > 1 => executed[i] = <<>>
C35_Witness ==
    /\ Migrated
    /\ Len(mig_reads) = 2
    /\ Len(executed[1]) >= 2
    /\ executed[2] = <<>>

\* -------------------------------------------------------------------------
\* C36: for a session whose stored revision id is that of the first k steps of
\* a Migrator with n steps, migrate executes exactly the statements of steps
\* k+1..n, in order, each once; for a session with no revision id, or with one
\* that matches no prefix of the steps, it executes the statements of all n
\* steps in order.
\* -------------------------------------------------------------------------
\* the steps after the first k, k the prefix whose revision id was stored
StepsAfter(steps, revision_id) ==
    LET ks == {k \in 1..Len(steps) : revision_id = Some(RevisionId(SubSeq(steps, 1, k)))}
    IN IF ks = {} THEN steps
       ELSE SubSeq(steps, (CHOOSE k \in ks : TRUE) + 1, Len(steps))
\* the statements call i executed, in order
StatementsOf(log) == [j \in DOMAIN log |-> log[j].string]
ExpectedStatements(steps, revision_id) ==
    LET all == Strings(StepsAfter(steps, revision_id), 1)
    IN [j \in DOMAIN all |-> all[j].string]
CallDone(i) == i < Len(executed) \/ (i = Len(executed) /\ mig_pc = "idle")
C36_PendingStepsExecuted ==
    \A i \in DOMAIN executed :
        CallDone(i) => StatementsOf(executed[i]) = ExpectedStatements(mig_steps, mig_reads[i])
\* no two steps of the migrator have one id
DistinctSteps ==
    \A i, j \in DOMAIN mig_steps : i # j => ~StepEq(mig_steps[i], mig_steps[j])
\* the part that holds: migrators whose steps all differ
PendingStepsExecutedWhenDistinct == DistinctSteps => C36_PendingStepsExecuted

\* -------------------------------------------------------------------------
\* C37: the revision id stored by migrate is advanced to the latest revision
\* only when every statement of every pending step has been executed
\* successfully; a statement that fails with OperationalError leaves the
\* session recorded at a revision that does not include its step.
\* -------------------------------------------------------------------------
Failed(log) == \E j \in DOMAIN log : ~log[j].ok
\* the revisions that include a step of a failed statement
IncludesFailedStep(log, steps) ==
    \E j \in DOMAIN log : ~log[j].ok /\ ~NotIn(log[j].step, steps)
C37_RevisionAdvancedOnSuccessOnly ==
    (Migrated /\ Failed(executed[Len(executed)])) =>
        /\ session.row # Some(RevisionId(mig_steps))
        /\ \A k \in 0..Len(mig_steps) :
              session.row = Some(RevisionId(SubSeq(mig_steps, 1, k))) =>
                  ~IncludesFailedStep(executed[Len(executed)], SubSeq(mig_steps, 1, k))

\* -------------------------------------------------------------------------
\* C38: a conjunction of query conditions behaves as a set of conditions: And
\* is flattened (And(a, And(b, c)) equals And(a, b, c)), commutative (a & b
\* equals b & a) and idempotent (a & a has the string of a); its string lists
\* each distinct condition once, in ascending order, and its tables are the
\* union of the tables of its conditions.
\* -------------------------------------------------------------------------
Made(e) == conjunctions[e] # None
Conj(e) == conjunctions[e][1]
\* the conditions an expression is made of
OperandsOf38(e) ==
    CASE e = "a & b" -> {operands.a, operands.b}
      [] e = "b & a" -> {operands.a, operands.b}
      [] e = "a & a" -> {operands.a}
      [] e = "And(b, c)" -> {operands.b, operands.c}
      [] OTHER -> {operands.a, operands.b, operands.c}
\* strings in ascending order, each once
RECURSIVE Ascending(_)
Ascending(S) ==
    IF S = {} THEN <<>>
    ELSE LET least == CHOOSE s \in S : \A t \in S \ {s} : StrLess(s, t)
         IN <<least>> \o Ascending(S \ {least})
C38_AndIsASet ==
    /\ (Made("And(a, And(b, c))") /\ Made("And(a, b, c)")) =>
           CondEq(Conj("And(a, And(b, c))"), Conj("And(a, b, c)"))
    /\ (Made("a & b") /\ Made("b & a")) => CondEq(Conj("a & b"), Conj("b & a"))
    /\ Made("a & a") => Str(Conj("a & a")) = Str(operands.a)
    /\ \A e \in Expressions :
          Made(e) =>
              /\ Str(Conj(e)) =
                     StrJoin(<<32, 65, 78, 68, 32>>, Ascending({AtomStr(c) : c \in OperandsOf38(e)}))
              /\ Tables(Conj(e)) = UNION {Tables(c) : c \in OperandsOf38(e)}
C38_Witness ==
    /\ \A e \in Expressions : Made(e)
    /\ Cardinality({Str(operands.a), Str(operands.b), Str(operands.c)}) = 3
    /\ StrLess(Str(operands.b), Str(operands.a))
    /\ StrLess(Str(operands.a), Str(operands.c))
    /\ Tables(Conj("And(a, b, c)")) = {object_table, value_table}
\* two conditions with one string are one condition of the conjunction
C38_WitnessEqualStrings ==
    /\ Made("a & b")
    /\ operands.a # operands.b
    /\ CondEq(operands.a, operands.b)

====
